---- MODULE Spec2Model ----
(***************************************************************************)
(* Model of the archive-to-CSV ingestion pipeline of                       *)
(* extract_zip_standalone.py.  Text is modelled character by character: a  *)
(* string is a sequence of one-character strings, a file is the sequence   *)
(* of characters it holds, and the string operations of the code (split,   *)
(* strip, rstrip, join, replace, the regular-expression search, text-mode  *)
(* reading with universal newlines) are operators computed as Python       *)
(* computes them.                                                          *)
(***************************************************************************)
EXTENDS Integers, Sequences, FiniteSets, TLC

VARIABLES
    pc,                     \* position of the running call / of main
    arg,                    \* the arguments of the function under check
    ret,                    \* the value returned by the last call
    fs,                     \* the filesystem: path -> file content
    dirs,                   \* directories created by the program
    merge_log,              \* the messages in LOG_FILE (merge_log.txt)
    error_log,              \* the messages in ERROR_LOG_FILE (error_log.txt)
    hist,                   \* history: the content the call started from
    total_csv_found,        \* the module's globals (lines 16-21 and 333)
    processed_csv_names,
    missing_date_archives,
    error_files,
    global_raw_lines,
    global_filtered_lines,
    main,                   \* the local variables of main
    walk                    \* the local variables of the running walker

globals == <<total_csv_found, processed_csv_names, missing_date_archives, error_files,
             global_raw_lines, global_filtered_lines>>

locals == <<main, walk>>

vars == <<pc, arg, ret, fs, dirs, merge_log, error_log, hist, globals, locals>>

-----------------------------------------------------------------------------
(* Characters.  Named characters stand for the code points the code tests. *)

LF  == "LF"                 \* "\n", 0x0A
CR  == "CR"                 \* "\r", 0x0D
TAB == "TAB"                \* "\t", 0x09
SP  == " "                  \* 0x20
SOH == "SOH"                \* 0x01: below 0x20, not whitespace for str.strip
FS  == "FS"                 \* 0x1C: below 0x20 and whitespace for str.strip
M1  == "M1"                 \* U+00EF, first character of the mojibake marker
M2  == "M2"                 \* U+00BF
M3  == "M3"                 \* U+00BD
COMMA == ","

\* in place of a content: the file does not exist
NoFile == <<"NoFile">>
None == "None"

Digits == {"0", "1", "2", "3", "4", "5", "6", "7", "8", "9"}

\* Characters str.strip() removes (str.isspace): among the modelled ones.
Whitespace == {SP, TAB, LF, CR, FS}

\* ord(ch) < 32 and ch not in "\n\r\t"
IsControl(ch) == ch \in {SOH, FS}

-----------------------------------------------------------------------------
(* String operations.                                                      *)

RECURSIVE Flatten(_)
Flatten(ss) == IF ss = <<>> THEN <<>> ELSE Head(ss) \o Flatten(Tail(ss))

\* s.replace(a, b) for one-character a and b
Replace(s, a, b) == [k \in 1..Len(s) |-> IF s[k] = a THEN b ELSE s[k]]

\* The positions of s, in order.
Indices(s) == [k \in 1..Len(s) |-> k]

\* s.split(sep) for a one-character sep: the texts between the separators,
\* always at least one field
Split(s, sep) ==
    LET seps == SelectSeq(Indices(s), LAMBDA k : s[k] = sep)
        n == Len(seps) + 1
    IN [i \in 1..n |->
           SubSeq(s, IF i = 1 THEN 1 ELSE seps[i - 1] + 1,
                     IF i = n THEN Len(s) ELSE seps[i] - 1)]

\* sep.join(fields)
RECURSIVE Join(_, _)
Join(fields, sep) ==
    IF fields = <<>> THEN <<>>
    ELSE IF Len(fields) = 1 THEN Head(fields)
    ELSE Head(fields) \o <<sep>> \o Join(Tail(fields), sep)

\* s.rstrip(chars), s.lstrip(chars), s.strip()
RECURSIVE RStrip(_, _)
RStrip(s, chars) ==
    IF s # <<>> /\ s[Len(s)] \in chars THEN RStrip(SubSeq(s, 1, Len(s) - 1), chars)
    ELSE s

RECURSIVE LStrip(_, _)
LStrip(s, chars) ==
    IF s # <<>> /\ Head(s) \in chars THEN LStrip(Tail(s), chars) ELSE s

Strip(s) == LStrip(RStrip(s, Whitespace), Whitespace)

\* sum(ns)
RECURSIVE SumOf(_)
SumOf(ns) == IF ns = <<>> THEN 0 ELSE Head(ns) + SumOf(Tail(ns))

\* sub in s, for a three-character sub
Contains3(s, a, b, c) ==
    \E k \in 1..(Len(s) - 2) : s[k] = a /\ s[k + 1] = b /\ s[k + 2] = c

-----------------------------------------------------------------------------
(* extract_date                                                            *)

SentinelDate == <<"0", "0", "0", "0", "-", "0", "0", "-", "0", "0">>

\* \d{4}[-_]\d{2}[-_]\d{2} matched at position i (1-based)
MatchAt(p, i) ==
    /\ i + 9 <= Len(p)
    /\ \A k \in 0..9 :
          IF k \in {4, 7} THEN p[i + k] \in {"-", "_"} ELSE p[i + k] \in Digits

\* re.search: the leftmost position the pattern matches at, 0 if none
RECURSIVE re_search(_, _)
re_search(p, i) ==
    IF i + 9 > Len(p) THEN 0
    ELSE IF MatchAt(p, i) THEN i
    ELSE re_search(p, i + 1)

extract_date_last(file_path) ==
    LET last == {i \in 1..Len(file_path) :
                    MatchAt(file_path, i)
                    /\ \A j \in (i + 1)..Len(file_path) : ~MatchAt(file_path, j)}
    IN IF last = {} THEN SentinelDate
       ELSE LET m == CHOOSE i \in last : TRUE
            IN Replace(SubSeq(file_path, m, m + 9), "_", "-")

extract_date(file_path) ==
    LET m == re_search(file_path, 1)
    IN IF m # 0 THEN Replace(SubSeq(file_path, m, m + 9), "_", "-")
       ELSE SentinelDate

-----------------------------------------------------------------------------
(* Inputs of the date extractor: paths put together from pieces that match *)
(* the pattern, pieces that nearly match it, and filler.                   *)

MaxPieces == 3

PathPieces ==
    { <<"2", "0", "2", "4", "-", "0", "3", "-", "0", "1">>,
      <<"1", "9", "9", "9", "_", "1", "2", "_", "3", "1">>,
      <<"2", "0", "2", "3", "-", "0", "8", "_", "0", "1">>,
      <<"2", "0", "2", "4", "-", "0", "3", "-", "x">>,
      <<"2", "0", "2", "-", "0", "3", "-", "0", "1">>,
      <<"2", "0", "2", "4", "/", "0", "3", "-", "0", "1">>,
      <<"7">>,
      <<"x">>,
      <<"_">> }

RECURSIVE PieceSeqs(_)
PieceSeqs(n) ==
    IF n = 0 THEN {<<>>}
    ELSE LET shorter == PieceSeqs(n - 1)
         IN shorter \cup {Append(s, x) : s \in {t \in shorter : Len(t) = n - 1},
                                          x \in PathPieces}

Paths == {Flatten(s) : s \in PieceSeqs(MaxPieces)}

\* The globals as the module sets them when it is loaded, no call of main or
\* of a walker running.
InitGlobals ==
    /\ total_csv_found = 0
    /\ processed_csv_names = <<>>
    /\ missing_date_archives = <<>>
    /\ error_files = {}
    /\ global_raw_lines = 0
    /\ global_filtered_lines = 0
    /\ main = None
    /\ walk = None

InitIdle ==
    /\ fs = << >>
    /\ dirs = {}
    /\ merge_log = <<>>
    /\ error_log = <<>>
    /\ hist = None
    /\ InitGlobals

InitDate ==
    /\ pc = "call"
    /\ arg \in Paths
    /\ ret = None
    /\ InitIdle

CallExtractDate ==
    /\ pc = "call"
    /\ ret' = extract_date(arg)
    /\ pc' = "done"
    /\ UNCHANGED <<arg, fs, dirs, merge_log, error_log, hist, globals, locals>>

NextDate == CallExtractDate

SpecDate == InitDate /\ [][NextDate]_vars

\* The ten characters of p from position i have the shape
\* digit digit digit digit sep digit digit sep digit digit.
DateShapedAt(p, i) ==
    /\ i >= 1
    /\ i + 9 <= Len(p)
    /\ {p[i], p[i + 1], p[i + 2], p[i + 3], p[i + 5], p[i + 6], p[i + 8], p[i + 9]}
          \subseteq Digits
    /\ p[i + 4] \in {"-", "_"}
    /\ p[i + 7] \in {"-", "_"}

HasDate(p) == \E i \in 1..Len(p) : DateShapedAt(p, i)

FirstDateAt(p) ==
    CHOOSE i \in 1..Len(p) :
        DateShapedAt(p, i) /\ \A j \in 1..(i - 1) : ~DateShapedAt(p, j)

\* C1: extract_date returns the first date-shaped substring of the path with
\* every underscore replaced by a hyphen, and the sentinel 0000-00-00 when
\* the path has no such substring.
C1_ExtractDate ==
    pc = "done" =>
        IF HasDate(arg)
        THEN /\ Len(ret) = 10
             /\ \A k \in 1..10 :
                   LET ch == arg[FirstDateAt(arg) + k - 1]
                   IN ret[k] = (IF ch = "_" THEN "-" ELSE ch)
        ELSE ret = SentinelDate

\* A path with two different dates, the first written with underscores.
C1_Witness ==
    /\ pc = "done"
    /\ HasDate(arg)
    /\ \E i \in 1..Len(arg) : DateShapedAt(arg, i) /\ i > FirstDateAt(arg)
    /\ arg[FirstDateAt(arg) + 4] = "_"
    /\ ret = <<"1", "9", "9", "9", "-", "1", "2", "-", "3", "1">>

-----------------------------------------------------------------------------
(* filter_nonprintable_lines                                               *)

HasMarkerOrControl(line) ==
    \/ Contains3(line, M1, M2, M3)
    \/ \E k \in 1..Len(line) : IsControl(line[k])

\* The filter with the column test off by one (< 5 for <= 5).
RECURSIVE filter_short_off_by_one(_)
filter_short_off_by_one(lines) ==
    IF lines = <<>> THEN <<>>
    ELSE LET line == Head(lines)
             rest == filter_short_off_by_one(Tail(lines))
         IN IF Len(Split(Strip(line), COMMA)) < 5 THEN rest
            ELSE IF HasMarkerOrControl(line) THEN rest
            ELSE <<line>> \o rest

\* The filter without the control-character test.
RECURSIVE filter_marker_only(_)
filter_marker_only(lines) ==
    IF lines = <<>> THEN <<>>
    ELSE LET line == Head(lines)
             rest == filter_marker_only(Tail(lines))
         IN IF Len(Split(Strip(line), COMMA)) <= 5 THEN rest
            ELSE IF Contains3(line, M1, M2, M3) THEN rest
            ELSE <<line>> \o rest

RECURSIVE filter_nonprintable_lines(_)
filter_nonprintable_lines(lines) ==
    IF lines = <<>> THEN <<>>
    ELSE LET line == Head(lines)
             rest == filter_nonprintable_lines(Tail(lines))
         IN IF Len(Split(Strip(line), COMMA)) <= 5 THEN rest
            ELSE IF HasMarkerOrControl(line) THEN rest
            ELSE <<line>> \o rest

-----------------------------------------------------------------------------
(* Inputs of the filter: lines as io.StringIO(...).readlines() returns     *)
(* them (every line but possibly the last ends with LF), with field counts *)
(* on both sides of the threshold and the characters the filter tests.     *)

MaxLines == 2
MaxFields == 7

FieldCounts == {1} \cup 4..MaxFields

\* n fields "a" joined by commas
RECURSIVE PlainFields(_)
PlainFields(n) == IF n = 0 THEN <<>> ELSE Append(PlainFields(n - 1), <<"a">>)

\* The text of a line (without its terminator) with n fields.
LineTexts(n) ==
    LET plain == Join(PlainFields(n), COMMA)
    IN { plain,
         Join([k \in 1..n |-> <<>>], COMMA),                \* empty fields
         <<SP>> \o plain \o <<TAB, CR>>,                    \* whitespace only
         plain \o <<SOH>>,                                  \* control character
         <<"b">> \o plain \o <<FS>>,                        \* control, and whitespace
         <<M1, M2, M3>> \o plain,                           \* the marker
         <<M1, M2>> \o plain \o <<M3>> }                    \* not the marker

TerminatedLines == {t \o <<LF>> : t \in UNION {LineTexts(n) : n \in FieldCounts}}

RECURSIVE LineSeqs(_, _)
LineSeqs(S, n) ==
    IF n = 0 THEN {<<>>}
    ELSE LET shorter == LineSeqs(S, n - 1)
         IN shorter \cup {Append(s, x) : s \in {t \in shorter : Len(t) = n - 1},
                                          x \in S}

\* The last line of a text may lack its terminator.
Unterminate(lines) ==
    [lines EXCEPT ![Len(lines)] = SubSeq(lines[Len(lines)], 1, Len(lines[Len(lines)]) - 1)]

FilterInputs ==
    LET full == LineSeqs(TerminatedLines, MaxLines)
    IN full \cup {Unterminate(ls) : ls \in {x \in full : x # <<>> /\ Len(x[Len(x)]) > 1}}

InitFilter ==
    /\ pc = "call"
    /\ arg \in FilterInputs
    /\ ret = None
    /\ InitIdle

CallFilter ==
    /\ pc = "call"
    /\ ret' = filter_nonprintable_lines(arg)
    /\ pc' = "done"
    /\ UNCHANGED <<arg, fs, dirs, merge_log, error_log, hist, globals, locals>>

NextFilter == CallFilter

SpecFilter == InitFilter /\ [][NextFilter]_vars

\* The number of comma-separated fields of a text: its commas plus one.
CommaFields(s) == Cardinality({k \in 1..Len(s) : s[k] = COMMA}) + 1

\* The text with leading and trailing whitespace removed.
Trimmed(s) ==
    LET inner == {k \in 1..Len(s) : s[k] \notin Whitespace}
    IN IF inner = {} THEN <<>>
       ELSE SubSeq(s, CHOOSE k \in inner : \A j \in inner : k <= j,
                      CHOOSE k \in inner : \A j \in inner : k >= j)

Range(f) == {f[k] : k \in DOMAIN f}

\* C2: a line whose trimmed text has 5 or fewer comma-separated fields is
\* never in the output of the filter, whatever else it holds.
C2_ShortLinesDropped ==
    pc = "done" =>
        \A k \in 1..Len(arg) :
            CommaFields(Trimmed(arg[k])) <= 5 => arg[k] \notin Range(ret)

\* A five-field line and a six-field line went in, only the latter came out.
C2_Witness ==
    /\ pc = "done"
    /\ Len(arg) = 2
    /\ CommaFields(Trimmed(arg[1])) = 5
    /\ ~HasMarkerOrControl(arg[1])
    /\ CommaFields(Trimmed(arg[2])) = 6
    /\ ret = <<arg[2]>>

BadCharacter(line) ==
    \/ \E k \in 1..Len(line) : line[k] \in {SOH, FS}
    \/ \E k \in 1..(Len(line) - 2) : <<line[k], line[k + 1], line[k + 2]>> = <<M1, M2, M3>>

Retained(line) == CommaFields(line) > 5 /\ ~BadCharacter(line)

\* C3: a line with a control character (other than LF, CR, TAB) or the
\* mojibake marker is dropped even when it has more than 5 fields, and the
\* output is exactly the lines with more than 5 fields and no such
\* character, unchanged and in their input order.
C3_BadCharactersDropped ==
    pc = "done" =>
        /\ \A k \in 1..Len(arg) : BadCharacter(arg[k]) => arg[k] \notin Range(ret)
        /\ ret = SelectSeq(arg, Retained)

\* A six-field line with a control character is dropped and the seven-field
\* line after it is kept.
C3_Witness ==
    /\ pc = "done"
    /\ Len(arg) = 2
    /\ CommaFields(arg[1]) = 6
    /\ \E k \in 1..Len(arg[1]) : arg[1][k] = SOH
    /\ CommaFields(arg[2]) = 7
    /\ ret = <<arg[2]>>

-----------------------------------------------------------------------------
(* Text files.  open(path, 'r') reads with universal newlines: CR LF and a *)
(* lone CR both arrive as LF.  open(path, 'w') writes LF as os.linesep,    *)
(* which is LF here (POSIX); open(path, 'w', newline='') writes the        *)
(* characters as they are.                                                 *)

\* CR LF -> LF and CR -> LF: an LF right after a CR is dropped, every CR
\* becomes LF
UniversalNewlines(s) ==
    LET kept == SelectSeq(Indices(s), LAMBDA k : ~(s[k] = LF /\ k > 1 /\ s[k - 1] = CR))
    IN [i \in 1..Len(kept) |-> IF s[kept[i]] = CR THEN LF ELSE s[kept[i]]]

\* readlines() on decoded text: lines keep their LF, the last may lack it
StringIOReadLines(text) ==
    LET ends == SelectSeq(Indices(text), LAMBDA k : text[k] = LF \/ k = Len(text))
    IN [i \in 1..Len(ends) |->
           SubSeq(text, IF i = 1 THEN 1 ELSE ends[i - 1] + 1, ends[i])]

\* open(path, 'r', encoding='utf-8').readlines(), and iteration over the file
FileReadLines(content) == StringIOReadLines(UniversalNewlines(content))

\* f.writelines(lines) on a file opened with 'w'
FileWriteLines(lines) == Flatten(lines)

\* fs with path holding content
Put(files, path, content) ==
    [q \in (DOMAIN files) \cup {path} |-> IF q = path THEN content ELSE files[q]]

-----------------------------------------------------------------------------
(* add_date_column and verify_date_column                                  *)

\* columns.extend([''] * (8 - len(columns))) when len(columns) < 8
PadTo8(columns) ==
    IF Len(columns) < 8
    THEN columns \o [k \in 1..(8 - Len(columns)) |-> <<>>]
    ELSE columns

\* columns.insert(8, date)
Insert8(columns, date) ==
    IF Len(columns) <= 8 THEN Append(columns, date)
    ELSE SubSeq(columns, 1, 8) \o <<date>> \o SubSeq(columns, 9, Len(columns))

\* The appender putting the date after the last column (append_date_to_lines).
add_date_column_at_end(csv_file, content) ==
    LET date == extract_date(csv_file)
        lines == FileReadLines(content)
    IN FileWriteLines(
          [k \in 1..Len(lines) |->
              Join(Append(PadTo8(Split(RStrip(lines[k], {LF}), COMMA)), date), COMMA)
                 \o <<LF>>])

\* The appender without the padding of short rows.
add_date_column_no_pad(csv_file, content) ==
    LET date == extract_date(csv_file)
        lines == FileReadLines(content)
    IN FileWriteLines(
          [k \in 1..Len(lines) |->
              Join(Insert8(Split(RStrip(lines[k], {LF}), COMMA), date), COMMA)
                 \o <<LF>>])

\* The appender leaving alone a row that carries the date at index 8.
add_date_column_guarded(csv_file, content) ==
    LET date == extract_date(csv_file)
        lines == FileReadLines(content)
        Row(line) ==
            LET columns == Split(RStrip(line, {LF}), COMMA)
            IN IF Len(columns) >= 9 /\ columns[9] = date THEN columns
               ELSE Insert8(PadTo8(columns), date)
    IN FileWriteLines([k \in 1..Len(lines) |-> Join(Row(lines[k]), COMMA) \o <<LF>>])

\* The new content of csv_file.
add_date_column(csv_file, content) ==
    LET date == extract_date(csv_file)
        lines == FileReadLines(content)
    IN FileWriteLines(
          [k \in 1..Len(lines) |->
              Join(Insert8(PadTo8(Split(RStrip(lines[k], {LF}), COMMA)), date), COMMA)
                 \o <<LF>>])

verify_date_column(csv_file, content) ==
    LET expected_date == extract_date(csv_file)
        lines == FileReadLines(content)
    IN \A k \in 1..Len(lines) :
          LET columns == Split(RStrip(lines[k], {LF}), COMMA)
          IN ~(Len(columns) < 9 \/ columns[9] # expected_date)

-----------------------------------------------------------------------------
(* Paths of main: the archive and the merged CSV derived from its name.    *)

base_folder == <<"l", "o", "g", "s">>

Lower(ch) ==
    CASE ch = "Z" -> "z"
      [] ch = "I" -> "i"
      [] ch = "P" -> "p"
      [] ch = "C" -> "c"
      [] ch = "S" -> "s"
      [] ch = "V" -> "v"
      [] OTHER -> ch

LowerStr(s) == [k \in 1..Len(s) |-> Lower(s[k])]

EndsWith(s, suffix) ==
    /\ Len(s) >= Len(suffix)
    /\ SubSeq(s, Len(s) - Len(suffix) + 1, Len(s)) = suffix

\* os.path.join(a, b) for a relative b
PathJoin(a, b) == a \o <<"/">> \o b

\* The name up to its first dot.
SplitExtRootAtFirstDot(name) ==
    LET dots == {k \in 1..Len(name) : name[k] = "."}
    IN IF dots = {} THEN name
       ELSE SubSeq(name, 1, (CHOOSE k \in dots : \A j \in dots : k <= j) - 1)

\* os.path.splitext(name)[0] for a name without directory part: the name up
\* to its last dot, unless only dots come before that dot
SplitExtRoot(name) ==
    LET dots == {k \in 1..Len(name) :
                    name[k] = "." /\ \E j \in 1..(k - 1) : name[j] # "."}
        last == {k \in dots : \A j \in 1..Len(name) : name[j] = "." => j <= k}
    IN IF last = {} THEN name
       ELSE SubSeq(name, 1, (CHOOSE k \in last : TRUE) - 1)

extracted_folder == PathJoin(base_folder, <<"e", "x", "t", "r", "a", "c", "t", "e", "d">>)

ArchivePath(filename) == PathJoin(base_folder, filename)

MergedCsvPath(filename) ==
    PathJoin(extracted_folder, SplitExtRoot(filename) \o <<".", "c", "s", "v">>)

\* Archive names os.listdir may return.
ArchiveNames ==
    { <<"r", "i", "g", "_", "2", "0", "2", "4", "_", "0", "3", "_", "0", "1", ".", "z", "i", "p">>,
      <<"1", "9", "9", "9", "-", "1", "2", "-", "3", "1", ".", "t", "a", "r", ".", "g", "z">>,
      <<"r", "i", "g", "7", ".", "7", "z">>,
      <<"r", "2", "0", "2", "4", "-", "0", "3", "-", "1", ".", "Z", "I", "P">> }

-----------------------------------------------------------------------------
(* Inputs of the appender and the verifier: files of rows with column      *)
(* counts on both sides of 8, with LF, CR LF and lone CR line ends, the    *)
(* last row with or without its line end.                                  *)

MaxFileLines == 2
MaxColumns == 9
MaxAppends == 2

ColumnCounts == {1} \cup 7..MaxColumns

RowTexts(n) ==
    { Join(PlainFields(n), COMMA) \o <<LF>>,
      <<"b", CR>> \o Join([k \in 1..n |-> <<>>], COMMA) \o <<CR, LF>> }

\* with the empty line
FileRows == {<<LF>>} \cup UNION {RowTexts(n) : n \in ColumnCounts}

FileContents ==
    LET full == LineSeqs(FileRows, MaxFileLines)
    IN {Flatten(ls) : ls \in full}
          \cup {Flatten(Unterminate(ls)) : ls \in {x \in full : x # <<>>}}

InitFile ==
    /\ pc = "ready"
    /\ \E filename \in ArchiveNames :
          arg = [filename |-> filename, csv_file |-> MergedCsvPath(filename)]
    /\ \E content \in FileContents :
          /\ fs = Put(<< >>, arg.csv_file, content)
          /\ hist = [content |-> content, appends |-> 0]
    /\ ret = None
    /\ dirs = {}
    /\ merge_log = <<>>
    /\ error_log = <<>>
    /\ InitGlobals

CallAddDateColumn ==
    /\ pc = "ready"
    /\ hist.appends < MaxAppends
    /\ fs' = Put(fs, arg.csv_file, add_date_column(arg.csv_file, fs[arg.csv_file]))
    /\ hist' = [hist EXCEPT !.appends = @ + 1]
    /\ UNCHANGED <<pc, arg, ret, dirs, merge_log, error_log, globals, locals>>

CallVerifyDateColumn ==
    /\ pc = "ready"
    /\ ret' = verify_date_column(arg.csv_file, fs[arg.csv_file])
    /\ pc' = "verified"
    /\ UNCHANGED <<arg, fs, dirs, merge_log, error_log, hist, globals, locals>>

NextFile == CallAddDateColumn \/ CallVerifyDateColumn

SpecFile == InitFile /\ [][NextFile]_vars

\* The rows of a file written with LF line ends: the pieces between the LFs.
RowsOf(content) ==
    LET pieces == Split(content, LF)
    IN IF pieces[Len(pieces)] = <<>> THEN SubSeq(pieces, 1, Len(pieces) - 1)
       ELSE pieces

\* C4: one run of add_date_column followed by verify_date_column on the same
\* path returns True, whatever the file held, the empty file included.
C4_RoundTrip ==
    (pc = "verified" /\ hist.appends = 1) => ret = TRUE

\* Verified after one run on a file of a short row and a long row, with a
\* lone CR in it and no line end on the last row.
C4_Witness ==
    /\ pc = "verified"
    /\ hist.appends = 1
    /\ ret = TRUE
    /\ \E k \in 1..Len(hist.content) : hist.content[k] = CR
    /\ hist.content[Len(hist.content)] # LF
    /\ LET rows == FileReadLines(hist.content)
       IN /\ Len(rows) >= 2
          /\ CommaFields(rows[1]) < 8
          /\ CommaFields(rows[Len(rows)]) > 8

\* C5 as the specification states it: after two runs of add_date_column on
\* a non-empty file verify_date_column returns False.
C5_VerifyFailsAfterSecondRun ==
    (pc = "verified" /\ hist.appends = 2 /\ hist.content # <<>>) => ret = FALSE

\* C5, amended: after two runs of add_date_column on a non-empty file every
\* row carries the date at index 8 and again at index 9, one column more
\* than after the first run, and verify_date_column still returns True.
C5_SecondRunNotDetected ==
    (hist.appends = 2 /\ hist.content # <<>>) =>
        /\ pc = "verified" => ret = TRUE
        /\ LET once == RowsOf(add_date_column(arg.csv_file, hist.content))
               twice == RowsOf(fs[arg.csv_file])
               date == extract_date(ArchivePath(arg.filename))
           IN /\ Len(twice) = Len(once)
              /\ \A k \in 1..Len(twice) :
                    LET columns == Split(twice[k], COMMA)
                    IN /\ Len(columns) = CommaFields(once[k]) + 1
                       /\ columns[9] = date
                       /\ columns[10] = date

\* Two runs on a non-empty file, then verified.
C5_Witness ==
    /\ pc = "verified"
    /\ hist.appends = 2
    /\ hist.content # <<>>
    /\ ret = TRUE
    /\ extract_date(arg.csv_file) # SentinelDate

\* C10: after add_date_column has run, every row of the file has at least 9
\* columns and the archive's date at index 8; after the first run a row
\* that had n columns holds them in order, padded with empty columns up to
\* 8, with the date put in after the eighth.
C10_DateAtIndex8 ==
    hist.appends >= 1 =>
        LET date == extract_date(ArchivePath(arg.filename))
            rows == RowsOf(fs[arg.csv_file])
            before == FileReadLines(hist.content)
        IN /\ \A k \in 1..Len(rows) :
                 /\ CommaFields(rows[k]) >= 9
                 /\ Split(rows[k], COMMA)[9] = date
           /\ hist.appends = 1 =>
                 /\ Len(rows) = Len(before)
                 /\ \A k \in 1..Len(rows) :
                       LET old == Split(RStrip(before[k], {LF}), COMMA)
                           new == Split(rows[k], COMMA)
                           n == Len(old)
                       IN /\ Len(new) = (IF n < 8 THEN 9 ELSE n + 1)
                          /\ \A j \in 1..Len(new) :
                                new[j] = (IF j = 9 THEN date
                                          ELSE IF j > 9 THEN old[j - 1]
                                          ELSE IF j <= n THEN old[j]
                                          ELSE <<>>)

\* One run on a file with a one-column row and a nine-column row, of an
\* archive whose name holds a date.
C10_Witness ==
    /\ hist.appends = 1
    /\ extract_date(ArchivePath(arg.filename)) # SentinelDate
    /\ LET before == FileReadLines(hist.content)
       IN /\ Len(before) = 2
          /\ CommaFields(before[1]) = 1
          /\ CommaFields(before[2]) = 9
    /\ Len(RowsOf(fs[arg.csv_file])) = 2

-----------------------------------------------------------------------------
(* The two log files.  A log is the sequence of the messages appended to   *)
(* it; every append writes a message, so the file exists exactly when the  *)
(* sequence is not empty.                                                  *)

\* with open(LOG, "a") as f: f.write(msg + "\n"), once per message
AppendLog(log, msgs) == log \o msgs

results_dir == <<"r", "e", "s", "u", "l", "t", "s">>

combined_csv_path == PathJoin(results_dir, <<"c", "o", "m", "b", "i", "n", "e", "d", "_", "r", "e", "s", "u", "l", "t", "s", ".", "c", "s", "v">>)

\* os.path.dirname(path): the path up to its last separator
Dirname(path) ==
    LET seps == SelectSeq(Indices(path), LAMBDA k : path[k] = "/")
    IN IF seps = <<>> THEN <<>> ELSE SubSeq(path, 1, seps[Len(seps)] - 1)

-----------------------------------------------------------------------------
(* combine_all_csv_files.  broken is the set of paths whose reading raises *)
(* (besides the paths that do not exist).                                  *)

\* The loop taking the first line of every file for a header.
RECURSIVE CombineLoopSkippingHeaders(_, _, _, _, _)
CombineLoopSkippingHeaders(csv_files, k, files, broken, acc) ==
    IF k > Len(csv_files) THEN acc
    ELSE LET file_path == csv_files[k]
         IN IF file_path \notin DOMAIN files \/ file_path \in broken
            THEN CombineLoopSkippingHeaders(csv_files, k + 1, files, broken,
                    [acc EXCEPT !.errors =
                        Append(@, [kind |-> "Error combining file", file |-> file_path])])
            ELSE LET lines == FileReadLines(files[file_path])
                     body == IF lines = <<>> THEN lines ELSE Tail(lines)
                 IN CombineLoopSkippingHeaders(csv_files, k + 1, files, broken,
                       [acc EXCEPT !.out = @ \o Flatten(body),
                                   !.total_rows = @ + Len(body)])

\* The loop ending at the first input that cannot be read.
RECURSIVE CombineLoopAborting(_, _, _, _, _)
CombineLoopAborting(csv_files, k, files, broken, acc) ==
    IF k > Len(csv_files) THEN acc
    ELSE LET file_path == csv_files[k]
         IN IF file_path \notin DOMAIN files \/ file_path \in broken
            THEN [acc EXCEPT !.errors =
                     Append(@, [kind |-> "Error combining file", file |-> file_path])]
            ELSE LET lines == FileReadLines(files[file_path])
                 IN CombineLoopAborting(csv_files, k + 1, files, broken,
                       [acc EXCEPT !.out = @ \o Flatten(lines),
                                   !.total_rows = @ + Len(lines)])

\* The loop over csv_files from position k on: acc holds the characters
\* written to outfile, total_rows and the error messages so far.
RECURSIVE CombineLoop(_, _, _, _, _)
CombineLoop(csv_files, k, files, broken, acc) ==
    IF k > Len(csv_files) THEN acc
    ELSE LET file_path == csv_files[k]
         IN IF file_path \notin DOMAIN files \/ file_path \in broken
            THEN CombineLoop(csv_files, k + 1, files, broken,
                    [acc EXCEPT !.errors =
                        Append(@, [kind |-> "Error combining file", file |-> file_path])])
            ELSE LET lines == FileReadLines(files[file_path])
                 IN CombineLoop(csv_files, k + 1, files, broken,
                       [acc EXCEPT !.out = @ \o Flatten(lines),
                                   !.total_rows = @ + Len(lines)])

\* The call after the test of the empty list: the output directory is made,
\* the output file opened for writing, the inputs copied, the log written.
CombineNonEmpty(csv_files, output_path, broken, st) ==
    LET opened == Put(st.fs, output_path, <<>>)
        done == CombineLoop(csv_files, 1, opened, broken,
                            [out |-> <<>>, total_rows |-> 0, errors |-> <<>>])
    IN [ret |-> done.total_rows,
        fs |-> Put(opened, output_path, done.out),
        dirs |-> st.dirs \cup {Dirname(output_path)},
        error_log |-> AppendLog(st.error_log, done.errors),
        merge_log |-> AppendLog(st.merge_log,
                         <<[kind |-> "Combined CSV created", path |-> output_path,
                            rows |-> done.total_rows]>>)]

\* The call without the early return for the empty list.
combine_without_early_return(csv_files, output_path, broken, st) ==
    CombineNonEmpty(csv_files, output_path, broken, st)

\* st is the state the call starts in (fs, dirs, error_log, merge_log); the
\* result is the returned value and the state the call leaves.
combine_all_csv_files(csv_files, output_path, broken, st) ==
    IF csv_files = <<>>
    THEN [ret |-> 0, fs |-> st.fs, dirs |-> st.dirs,
          error_log |-> st.error_log, merge_log |-> st.merge_log]
    ELSE CombineNonEmpty(csv_files, output_path, broken, st)

-----
(* Inputs of the combiner: a list of up to MaxFiles paths (a path may      *)
(* repeat), files that are missing, empty, with CR LF line ends or without *)
(* a line end on the last row, and possibly an output file left by an      *)
(* earlier run.                                                            *)

MaxFiles == 3

CombinePaths ==
    { MergedCsvPath(<<"r", "i", "g", "_", "2", "0", "2", "4", "_", "0", "3", "_", "0", "1", ".", "z", "i", "p">>),
      MergedCsvPath(<<"r", "i", "g", "7", ".", "7", "z">>) }

CombineRows == { <<"a", ",", "1", LF>>, <<"b", CR, LF>> }

CombineContents ==
    LET full == LineSeqs(CombineRows, MaxFileLines)
    IN {Flatten(ls) : ls \in full}
          \cup {Flatten(Unterminate(ls)) : ls \in {x \in full : x # <<>>}}

InitCombine ==
    /\ pc = "call"
    /\ \E files \in [CombinePaths -> CombineContents \cup {NoFile}],
          old \in {NoFile, <<"o", LF>>} :
          LET present == {q \in CombinePaths : files[q] # NoFile}
                            \cup (IF old = NoFile THEN {} ELSE {combined_csv_path})
          IN fs = [q \in present |-> IF q = combined_csv_path THEN old ELSE files[q]]
    /\ \E csv_files \in LineSeqs(CombinePaths, MaxFiles),
          broken \in {{}, {CHOOSE q \in CombinePaths : TRUE}} :
          arg = [csv_files |-> csv_files, output_path |-> combined_csv_path,
                 broken |-> broken]
    /\ dirs = {}
    /\ merge_log = <<>>
    /\ error_log = <<>>
    /\ ret = None
    /\ hist = [fs |-> fs]
    /\ InitGlobals

CallCombine ==
    /\ pc = "call"
    /\ LET r == combine_all_csv_files(arg.csv_files, arg.output_path, arg.broken,
                   [fs |-> fs, dirs |-> dirs, error_log |-> error_log,
                    merge_log |-> merge_log])
       IN /\ ret' = r.ret
          /\ fs' = r.fs
          /\ dirs' = r.dirs
          /\ error_log' = r.error_log
          /\ merge_log' = r.merge_log
    /\ pc' = "done"
    /\ UNCHANGED <<arg, hist, globals, locals>>

NextCombine == CallCombine

SpecCombine == InitCombine /\ [][NextCombine]_vars

\* C6: called with an empty list, combine_all_csv_files returns 0, creates
\* no directory and no file, changes no file and writes to neither log.
C6_EmptyListNoEffect ==
    (pc = "done" /\ arg.csv_files = <<>>) =>
        /\ ret = 0
        /\ fs = hist.fs
        /\ dirs = {}
        /\ merge_log = <<>>
        /\ error_log = <<>>

\* The empty list, with and without an output file of an earlier run.
C6_Witness ==
    /\ pc = "done"
    /\ arg.csv_files = <<>>
    /\ combined_csv_path \notin DOMAIN fs
    /\ \E q \in DOMAIN fs : fs[q] # <<>>

Readable(path) == path \in DOMAIN hist.fs /\ path \notin arg.broken

\* C7: when every input can be read, the returned count is the sum of the
\* inputs' line counts and the output file holds the lines of the inputs,
\* as read, one input after the other in list order; for inputs without CR
\* that is the concatenation of the inputs' contents, character by
\* character.
C7_Concatenation ==
    (pc = "done" /\ arg.csv_files # <<>>
        /\ \A k \in 1..Len(arg.csv_files) : Readable(arg.csv_files[k])) =>
        LET n == Len(arg.csv_files)
            content == [k \in 1..n |-> hist.fs[arg.csv_files[k]]]
            lines == [k \in 1..n |-> FileReadLines(content[k])]
        IN /\ ret = SumOf([k \in 1..n |-> Len(lines[k])])
           /\ fs[arg.output_path] = Flatten([k \in 1..n |-> Flatten(lines[k])])
           /\ (\A k \in 1..n : \A j \in 1..Len(content[k]) : content[k][j] # CR)
                 => fs[arg.output_path] = Flatten(content)

\* Three readable inputs, two of them different and not empty.
C7_Witness ==
    /\ pc = "done"
    /\ Len(arg.csv_files) = 3
    /\ \A k \in 1..3 : Readable(arg.csv_files[k])
    /\ arg.csv_files[1] # arg.csv_files[2]
    /\ hist.fs[arg.csv_files[1]] # hist.fs[arg.csv_files[2]]
    /\ Len(FileReadLines(hist.fs[arg.csv_files[1]])) = 2
    /\ Len(FileReadLines(hist.fs[arg.csv_files[2]])) = 1
    /\ ret = 5

-----------------------------------------------------------------------------
(* update_column_based_on_index                                            *)

index_csv_path == <<"a", "s", "s", "e", "t", "s", "/", "i", "n", "d", "e", "x", "_", "r", "i", "g", "s", ".", "c", "s", "v">>

\* The lookup dictionary after the index lines from position k on: a later
\* line with the same key overwrites the earlier one.
RECURSIVE BuildLookup(_, _, _)
BuildLookup(lines, k, lookup) ==
    IF k > Len(lines) THEN lookup
    ELSE LET cols == Split(Strip(lines[k]), COMMA)
         IN BuildLookup(lines, k + 1,
               IF Len(cols) >= 2 THEN Put(lookup, Strip(cols[1]), Strip(cols[2]))
               ELSE lookup)

\* The row with the key taken as it stands, not stripped.
UpdateRowUnstripped(line, lookup) ==
    LET cols == Split(RStrip(line, {LF}), COMMA)
    IN IF Len(cols) > 5
       THEN LET key == cols[6]
            IN IF key \in DOMAIN lookup
               THEN [row |-> Join([cols EXCEPT ![6] = lookup[key]], COMMA) \o <<LF>>,
                     match |-> 1, no_match |-> 0]
               ELSE [row |-> Join(cols, COMMA) \o <<LF>>, match |-> 0, no_match |-> 1]
       ELSE [row |-> Join(cols, COMMA) \o <<LF>>, match |-> 0, no_match |-> 0]

\* The row looked up only when it has more than 6 fields.
UpdateRowAbove6(line, lookup) ==
    LET cols == Split(RStrip(line, {LF}), COMMA)
    IN IF Len(cols) > 6
       THEN LET key == Strip(cols[6])
            IN IF key \in DOMAIN lookup
               THEN [row |-> Join([cols EXCEPT ![6] = lookup[key]], COMMA) \o <<LF>>,
                     match |-> 1, no_match |-> 0]
               ELSE [row |-> Join(cols, COMMA) \o <<LF>>, match |-> 0, no_match |-> 1]
       ELSE [row |-> Join(cols, COMMA) \o <<LF>>, match |-> 0, no_match |-> 0]

\* The row cut after the field at index 5 when its key is found.
UpdateRowTruncating(line, lookup) ==
    LET cols == Split(RStrip(line, {LF}), COMMA)
    IN IF Len(cols) > 5
       THEN LET key == Strip(cols[6])
            IN IF key \in DOMAIN lookup
               THEN [row |-> Join([SubSeq(cols, 1, 6) EXCEPT ![6] = lookup[key]], COMMA)
                                \o <<LF>>,
                     match |-> 1, no_match |-> 0]
               ELSE [row |-> Join(cols, COMMA) \o <<LF>>, match |-> 0, no_match |-> 1]
       ELSE [row |-> Join(cols, COMMA) \o <<LF>>, match |-> 0, no_match |-> 0]

\* One line of the combined CSV: the row written back and what it adds to
\* matches_count and no_matches_count.
UpdateRow(line, lookup) ==
    LET cols == Split(RStrip(line, {LF}), COMMA)
    IN IF Len(cols) > 5
       THEN LET key == Strip(cols[6])
            IN IF key \in DOMAIN lookup
               THEN [row |-> Join([cols EXCEPT ![6] = lookup[key]], COMMA) \o <<LF>>,
                     match |-> 1, no_match |-> 0]
               ELSE [row |-> Join(cols, COMMA) \o <<LF>>, match |-> 0, no_match |-> 1]
       ELSE [row |-> Join(cols, COMMA) \o <<LF>>, match |-> 0, no_match |-> 0]

\* st is the state the call starts in (fs, error_log, merge_log); broken is
\* the set of paths whose reading raises.
update_column_based_on_index(combined_path, index_path, broken, st) ==
    IF index_path \notin DOMAIN st.fs \/ index_path \in broken
    THEN [ret |-> 0, fs |-> st.fs,
          error_log |-> AppendLog(st.error_log,
                           <<[kind |-> "Error reading index file", file |-> index_path]>>),
          merge_log |-> st.merge_log]
    ELSE IF combined_path \notin DOMAIN st.fs \/ combined_path \in broken
    THEN [ret |-> 0, fs |-> st.fs,
          error_log |-> AppendLog(st.error_log,
                           <<[kind |-> "Error updating combined CSV",
                              file |-> combined_path]>>),
          merge_log |-> st.merge_log]
    ELSE LET lookup == BuildLookup(FileReadLines(st.fs[index_path]), 1, << >>)
             lines == FileReadLines(st.fs[combined_path])
             updated == [k \in 1..Len(lines) |-> UpdateRow(lines[k], lookup)]
             matches_count == SumOf([k \in 1..Len(lines) |-> updated[k].match])
             no_matches_count == SumOf([k \in 1..Len(lines) |-> updated[k].no_match])
         IN [ret |-> matches_count,
             fs |-> Put(st.fs, combined_path,
                        FileWriteLines([k \in 1..Len(lines) |-> updated[k].row])),
             error_log |-> st.error_log,
             merge_log |-> AppendLog(st.merge_log,
                              <<[kind |-> "Column updates complete",
                                 matched |-> matches_count,
                                 no_matches |-> no_matches_count]>>)]

-----
(* Inputs of the index rewrite: an index file with a repeated key, a key   *)
(* and a value in whitespace and a one-column line; rows of the combined   *)
(* CSV with and without a field 5, field 5 a key, a key in whitespace or   *)
(* no key.                                                                 *)

MaxIndexLines == 2

IndexLines ==
    { <<"A", ",", "X", LF>>,
      <<"B", ",", "Y", LF>>,
      <<SP, "A", SP, ",", SP, "Z", TAB, ",", "q", CR, LF>>,
      <<"C", LF>> }

IndexContents == {Flatten(ls) : ls \in LineSeqs(IndexLines, MaxIndexLines)}

\* A row of n fields "a" with the given text at index 5 (if it has one).
RowWith(n, f5) == Join([k \in 1..n |-> IF k = 6 THEN f5 ELSE <<"a">>], COMMA) \o <<LF>>

CombinedRows ==
    { RowWith(5, <<>>),
      RowWith(6, <<"A">>),
      RowWith(6, <<"C">>),
      RowWith(7, <<SP, "B">>),
      RowWith(9, <<SP, "A", TAB>>) }

CombinedContents ==
    LET full == LineSeqs(CombinedRows, MaxFileLines)
    IN {Flatten(ls) : ls \in full}
          \cup {Flatten(Unterminate(ls)) : ls \in {x \in full : x # <<>>}}

InitIndex ==
    /\ pc = "call"
    /\ arg = [combined_csv_path |-> combined_csv_path, index_csv_path |-> index_csv_path,
              broken |-> {}]
    /\ \E combined \in CombinedContents, index \in IndexContents \cup {NoFile} :
          fs = [q \in {combined_csv_path} \cup (IF index = NoFile THEN {} ELSE {index_csv_path})
                   |-> IF q = combined_csv_path THEN combined ELSE index]
    /\ dirs = {}
    /\ merge_log = <<>>
    /\ error_log = <<>>
    /\ ret = None
    /\ hist = [fs |-> fs]
    /\ InitGlobals

CallUpdateColumn ==
    /\ pc = "call"
    /\ LET r == update_column_based_on_index(arg.combined_csv_path, arg.index_csv_path,
                   arg.broken,
                   [fs |-> fs, error_log |-> error_log, merge_log |-> merge_log])
       IN /\ ret' = r.ret
          /\ fs' = r.fs
          /\ error_log' = r.error_log
          /\ merge_log' = r.merge_log
    /\ pc' = "done"
    /\ UNCHANGED <<arg, dirs, hist, globals, locals>>

NextIndex == CallUpdateColumn

SpecIndex == InitIndex /\ [][NextIndex]_vars

\* The index lines that define a key: those with at least two fields.
KeyLines(index) ==
    SelectSeq(FileReadLines(index), LAMBDA line : CommaFields(Trimmed(line)) >= 2)

IsKey(index, key) ==
    LET ls == KeyLines(index)
    IN \E k \in 1..Len(ls) : Trimmed(Split(Trimmed(ls[k]), COMMA)[1]) = key

\* The value of the last index line with the key.
MappedValue(index, key) ==
    LET ls == KeyLines(index)
        at == CHOOSE k \in 1..Len(ls) :
                  /\ Trimmed(Split(Trimmed(ls[k]), COMMA)[1]) = key
                  /\ \A j \in (k + 1)..Len(ls) :
                        Trimmed(Split(Trimmed(ls[j]), COMMA)[1]) # key
    IN Trimmed(Split(Trimmed(ls[at]), COMMA)[2])

\* C8: a row whose trimmed field 5 is a key of the index gets the mapped
\* value in field 5 and counts as one match; a row whose field 5 is not a
\* key is left as it is and counts as one no-match; the function returns
\* the number of matches.
C8_IndexRewrite ==
    (pc = "done" /\ index_csv_path \in DOMAIN hist.fs) =>
        LET index == hist.fs[index_csv_path]
            lines == FileReadLines(hist.fs[combined_csv_path])
            rows == RowsOf(fs[combined_csv_path])
            before == [k \in 1..Len(lines) |-> Split(RStrip(lines[k], {LF}), COMMA)]
            after == [k \in 1..Len(rows) |-> Split(rows[k], COMMA)]
            hits == {k \in 1..Len(before) :
                        Len(before[k]) > 5 /\ IsKey(index, Trimmed(before[k][6]))}
            misses == {k \in 1..Len(before) :
                          Len(before[k]) > 5 /\ ~IsKey(index, Trimmed(before[k][6]))}
        IN /\ Len(after) = Len(before)
           /\ \A k \in hits :
                 after[k] = [before[k] EXCEPT ![6] = MappedValue(index, Trimmed(before[k][6]))]
           /\ \A k \in misses : after[k] = before[k]
           /\ ret = Cardinality(hits)
           /\ merge_log[Len(merge_log)].matched = Cardinality(hits)
           /\ merge_log[Len(merge_log)].no_matches = Cardinality(misses)

\* The index maps A to X and then to Z; one row has " A" in field 5 and is
\* rewritten to Z, the other has C and is left alone.
C8_Witness ==
    /\ pc = "done"
    /\ index_csv_path \in DOMAIN hist.fs
    /\ IsKey(hist.fs[index_csv_path], <<"A">>)
    /\ MappedValue(hist.fs[index_csv_path], <<"A">>) = <<"Z">>
    /\ Len(KeyLines(hist.fs[index_csv_path])) = 2
    /\ hist.fs[combined_csv_path] = Flatten(<<RowWith(9, <<SP, "A", TAB>>), RowWith(6, <<"C">>)>>)
    /\ fs[combined_csv_path] = Flatten(<<RowWith(9, <<"Z">>), RowWith(6, <<"C">>)>>)
    /\ ret = 1
    /\ merge_log[1].no_matches = 1

-----------------------------------------------------------------------------
(* The archive walkers: merge_csv_from_zip, merge_csv_from_tar and         *)
(* merge_csv_from_7z. An archive is a record [opens, members]: opens tells *)
(* whether the library opens it, members are its entries in archive order. *)
(* A member is a record [name, is_file, text, fail]: text is the member's  *)
(* decoded content, fail tells where handling it raises: "none", "open"    *)
(* (z.open, archive.read) or "read" (source.read, decode).                 *)

\* os.path.basename(filename): what follows the last separator
Basename(path) ==
    LET seps == SelectSeq(Indices(path), LAMBDA k : path[k] = "/")
    IN IF seps = <<>> THEN path ELSE SubSeq(path, seps[Len(seps)] + 1, Len(path))

\* os.path.normpath(member) of a relative name without dots: its trailing
\* separators removed
Normpath(path) == RStrip(path, {"/"})

\* basename.lower().endswith('.csv') and len(basename) > 20
Qualifies(basename) ==
    /\ EndsWith(LowerStr(basename), <<".", "c", "s", "v">>)
    /\ Len(basename) > 20

\* read_csv_lines(source) of a member that reads and decodes
read_csv_lines(member) == StringIOReadLines(member.text)

\* An except block that records the failure and raises again.
MemberErrorAborting(st, kind, filename, archive_path) ==
    [st EXCEPT !.error_files = @ \cup {filename},
               !.error_log = AppendLog(@, <<[kind |-> kind, file |-> filename,
                                             archive |-> archive_path]>>),
               !.raised = TRUE]

\* The except blocks: the name joins error_files, a message joins the error log.
MemberError(st, kind, filename, archive_path) ==
    [st EXCEPT !.error_files = @ \cup {filename},
               !.error_log = AppendLog(@, <<[kind |-> kind, file |-> filename,
                                             archive |-> archive_path]>>)]

\* csv_count += 1; total_csv_found += 1; processed_csv_names.append(name)
CountMember(st, filename) ==
    [st EXCEPT !.csv_count = @ + 1,
               !.total_csv_found = @ + 1,
               !.processed_csv_names = Append(@, filename)]

\* The body of the try block with the lines written as they were read.
WriteUnfiltered(st, member) ==
    LET lines == read_csv_lines(member)
    IN [st EXCEPT !.global_raw_lines = @ + Len(lines),
                  !.global_filtered_lines = @ + Len(lines),
                  !.total_lines = @ + Len(lines),
                  !.merged = @ \o Flatten(lines),
                  !.written = @ \o lines]

\* The body of the try block once the member is open: read, filter, count,
\* merged.writelines(filtered). The merged CSV is open with newline='', so
\* the lines reach the file as they are.
WriteFiltered(st, member) ==
    LET lines == read_csv_lines(member)
        filtered == filter_nonprintable_lines(lines)
    IN [st EXCEPT !.global_raw_lines = @ + Len(lines),
                  !.global_filtered_lines = @ + Len(filtered),
                  !.total_lines = @ + Len(filtered),
                  !.merged = @ \o Flatten(filtered),
                  !.written = @ \o filtered]

\* The zip loop body writing the lines of a member before its failure shows.
zip_member_partial_write(st, member, zip_path) ==
    IF member.name \in st.error_files THEN st
    ELSE IF ~member.is_file \/ ~Qualifies(Basename(member.name)) THEN st
    ELSE LET counted == CountMember(st, member.name)
         IN IF member.fail # "none"
            THEN MemberError(WriteFiltered(counted, member), "Error processing file",
                             member.name, zip_path)
            ELSE WriteFiltered(counted, member)

\* One iteration of the loop over z.infolist()
zip_member(st, member, zip_path) ==
    IF member.name \in st.error_files THEN st
    ELSE IF ~member.is_file \/ ~Qualifies(Basename(member.name)) THEN st
    ELSE LET counted == CountMember(st, member.name)
         IN IF member.fail # "none"
            THEN MemberError(counted, "Error processing file", member.name, zip_path)
            ELSE WriteFiltered(counted, member)

\* One iteration of the loop over tar.getmembers(); tar.extractfile is
\* called outside the try block, so an exception it raises leaves the walker.
tar_member(st, member, tar_path) ==
    IF member.name \in st.error_files THEN st
    ELSE IF ~member.is_file \/ ~Qualifies(Basename(member.name)) THEN st
    ELSE LET counted == CountMember(st, member.name)
         IN IF member.fail = "open" THEN [counted EXCEPT !.raised = TRUE]
            ELSE IF member.fail = "read"
            THEN MemberError(counted, "Error processing file", member.name, tar_path)
            ELSE WriteFiltered(counted, member)

\* The 7z loop body without the test of error_files.
sevenz_member_without_exclusion(st, member, sevenz_path) ==
    IF ~Qualifies(Basename(Normpath(member.name))) THEN st
    ELSE IF member.fail = "open"
    THEN MemberError(st, "Error on file", member.name, sevenz_path)
    ELSE IF ~member.is_file THEN st
    ELSE LET counted == CountMember(st, member.name)
         IN IF member.fail = "read"
            THEN MemberError(counted, "Error processing file", member.name, sevenz_path)
            ELSE WriteFiltered(counted, member)

\* One iteration of the loop over archive.getnames(). getnames lists the
\* directories too and archive.read returns the content of files only, so a
\* directory is a name that is not in extracted.
sevenz_member(st, member, sevenz_path) ==
    IF member.name \in st.error_files THEN st
    ELSE IF ~Qualifies(Basename(Normpath(member.name))) THEN st
    ELSE IF member.fail = "open"
    THEN MemberError(st, "Error on file", member.name, sevenz_path)
    ELSE IF ~member.is_file THEN st
    ELSE LET counted == CountMember(st, member.name)
         IN IF member.fail = "read"
            THEN MemberError(counted, "Error processing file", member.name, sevenz_path)
            ELSE WriteFiltered(counted, member)

\* file_path.lower().endswith(...) in merge_csv_from_compressed
IsZip(file_path) == EndsWith(LowerStr(file_path), <<".", "z", "i", "p">>)

IsTar(file_path) ==
    \/ EndsWith(LowerStr(file_path), <<".", "t", "a", "r">>)
    \/ EndsWith(LowerStr(file_path), <<".", "t", "a", "r", ".", "g", "z">>)
    \/ EndsWith(LowerStr(file_path), <<".", "t", "g", "z">>)

IsSevenZ(file_path) == EndsWith(LowerStr(file_path), <<".", "7", "z">>)

\* filename.lower().endswith(('.zip', '.tar', '.tar.gz', '.tgz', '.7z'))
IsArchive(filename) == IsZip(filename) \/ IsTar(filename) \/ IsSevenZ(filename)

-----------------------------------------------------------------------------
(* main, one action per step of the run. pc is the position in main:       *)
(* "start", "listdir" (the loop over os.listdir), "walk" (inside a walker, *)
(* in its loop over the members), "append_date", "combine", "index",       *)
(* "summary", "verify", "done", or "crashed" when an exception left main.  *)
(* arg holds what the run finds on disk: listdir, the names in base_folder *)
(* in the order os.listdir returns them, and archives, the archive behind  *)
(* each name. hist.written holds the lines the running walker has passed   *)
(* to merged.writelines, hist.runs counts the calls of main.               *)

\* The walker's view of the state and the state after one of its steps.
WalkerState ==
    [error_files |-> error_files, error_log |-> error_log,
     total_csv_found |-> total_csv_found, processed_csv_names |-> processed_csv_names,
     global_raw_lines |-> global_raw_lines,
     global_filtered_lines |-> global_filtered_lines,
     csv_count |-> walk.csv_count, total_lines |-> walk.total_lines,
     merged |-> fs[walk.merged_csv], written |-> hist.written, raised |-> FALSE]

WalkerStep(r) ==
    /\ error_files' = r.error_files
    /\ error_log' = r.error_log
    /\ total_csv_found' = r.total_csv_found
    /\ processed_csv_names' = r.processed_csv_names
    /\ global_raw_lines' = r.global_raw_lines
    /\ global_filtered_lines' = r.global_filtered_lines
    /\ walk' = [walk EXCEPT !.k = @ + 1, !.csv_count = r.csv_count,
                            !.total_lines = r.total_lines]
    /\ fs' = Put(fs, walk.merged_csv, r.merged)
    /\ hist' = [hist EXCEPT !.written = r.written]
    /\ pc' = IF r.raised THEN "crashed" ELSE "walk"
    /\ UNCHANGED <<arg, ret, dirs, merge_log, missing_date_archives, main>>

Members == arg.archives[arg.listdir[main.i]].members

\* The start of main leaving the Error Set of the call before in place.
MainStartKeepingErrorSet ==
    /\ pc = "start"
    /\ total_csv_found' = 0
    /\ global_raw_lines' = 0
    /\ global_filtered_lines' = 0
    /\ processed_csv_names' = <<>>
    /\ missing_date_archives' = <<>>
    /\ dirs' = dirs \cup {results_dir, extracted_folder}
    /\ merge_log' = <<>>
    /\ error_log' = <<>>
    /\ main' = [i |-> 1, merged_files |-> <<>>, global_input_lines |-> 0,
                global_merged_lines |-> None, combined_lines |-> None,
                failed_files |-> None]
    /\ pc' = "listdir"
    /\ UNCHANGED <<arg, ret, fs, hist, walk, error_files>>

\* Lines 333-360: the globals are reset, the folders made, the logs of the
\* previous run removed.
MainStart ==
    /\ pc = "start"
    /\ total_csv_found' = 0
    /\ global_raw_lines' = 0
    /\ global_filtered_lines' = 0
    /\ processed_csv_names' = <<>>
    /\ missing_date_archives' = <<>>
    /\ error_files' = {}
    /\ dirs' = dirs \cup {results_dir, extracted_folder}
    /\ merge_log' = <<>>
    /\ error_log' = <<>>
    /\ main' = [i |-> 1, merged_files |-> <<>>, global_input_lines |-> 0,
                global_merged_lines |-> None, combined_lines |-> None,
                failed_files |-> None]
    /\ pc' = "listdir"
    /\ UNCHANGED <<arg, ret, fs, hist, walk>>

\* Line 364: a name that is no archive is passed over.
SkipEntry ==
    /\ pc = "listdir"
    /\ main.i <= Len(arg.listdir)
    /\ ~IsArchive(arg.listdir[main.i])
    /\ main' = [main EXCEPT !.i = @ + 1]
    /\ UNCHANGED <<pc, arg, ret, fs, dirs, merge_log, error_log, hist, globals, walk>>

\* WalkOpen without the entry in the missing-date list.
WalkOpenWithoutMissingDate ==
    /\ pc = "listdir"
    /\ main.i <= Len(arg.listdir)
    /\ IsArchive(arg.listdir[main.i])
    /\ LET filename == arg.listdir[main.i]
       IN /\ fs' = Put(fs, MergedCsvPath(filename), <<>>)
          /\ walk' = [file_path |-> ArchivePath(filename),
                      merged_csv |-> MergedCsvPath(filename), k |-> 1,
                      csv_count |-> 0, total_lines |-> 0]
          /\ pc' = IF arg.archives[filename].opens THEN "walk" ELSE "crashed"
    /\ hist' = [hist EXCEPT !.written = <<>>]
    /\ UNCHANGED <<arg, ret, dirs, merge_log, error_log, main, globals>>

\* Lines 365-367 and the head of the walker: the date check, the merged CSV
\* opened for writing, the archive opened. An archive the library cannot
\* open raises, and nothing up to main catches it.
WalkOpen ==
    /\ pc = "listdir"
    /\ main.i <= Len(arg.listdir)
    /\ IsArchive(arg.listdir[main.i])
    /\ LET filename == arg.listdir[main.i]
           file_path == ArchivePath(filename)
           merged_csv == MergedCsvPath(filename)
       IN /\ missing_date_archives' =
                IF extract_date(file_path) = SentinelDate
                THEN Append(missing_date_archives, file_path)
                ELSE missing_date_archives
          /\ fs' = Put(fs, merged_csv, <<>>)
          /\ walk' = [file_path |-> file_path, merged_csv |-> merged_csv, k |-> 1,
                      csv_count |-> 0, total_lines |-> 0]
          /\ pc' = IF arg.archives[filename].opens THEN "walk" ELSE "crashed"
    /\ hist' = [hist EXCEPT !.written = <<>>]
    /\ UNCHANGED <<arg, ret, dirs, merge_log, error_log, main, total_csv_found,
                   processed_csv_names, error_files, global_raw_lines,
                   global_filtered_lines>>

WalkZipMember ==
    /\ pc = "walk"
    /\ IsZip(walk.file_path)
    /\ walk.k <= Len(Members)
    /\ WalkerStep(zip_member(WalkerState, Members[walk.k], walk.file_path))

WalkTarMember ==
    /\ pc = "walk"
    /\ ~IsZip(walk.file_path) /\ IsTar(walk.file_path)
    /\ walk.k <= Len(Members)
    /\ WalkerStep(tar_member(WalkerState, Members[walk.k], walk.file_path))

WalkSevenZMember ==
    /\ pc = "walk"
    /\ ~IsZip(walk.file_path) /\ ~IsTar(walk.file_path) /\ IsSevenZ(walk.file_path)
    /\ walk.k <= Len(Members)
    /\ WalkerStep(sevenz_member(WalkerState, Members[walk.k], walk.file_path))

\* The tail of the walker leading straight to the next name of os.listdir.
WalkEndToNextArchive ==
    /\ pc = "walk"
    /\ walk.k > Len(Members)
    /\ merge_log' = AppendLog(merge_log,
                       <<[kind |-> "Merged CSV created", path |-> walk.merged_csv,
                          csv_count |-> walk.csv_count,
                          total_lines |-> walk.total_lines]>>)
    /\ ret' = walk.total_lines
    /\ main' = [main EXCEPT !.global_input_lines = @ + walk.total_lines,
                            !.merged_files = Append(@, walk.merged_csv), !.i = @ + 1]
    /\ pc' = "listdir"
    /\ UNCHANGED <<arg, fs, dirs, error_log, hist, globals, walk>>

\* The tail of the walker and line 367: the log line, the return value added
\* to global_input_lines.
WalkEnd ==
    /\ pc = "walk"
    /\ walk.k > Len(Members)
    /\ merge_log' = AppendLog(merge_log,
                       <<[kind |-> "Merged CSV created", path |-> walk.merged_csv,
                          csv_count |-> walk.csv_count,
                          total_lines |-> walk.total_lines]>>)
    /\ ret' = walk.total_lines
    /\ main' = [main EXCEPT !.global_input_lines = @ + walk.total_lines]
    /\ pc' = "append_date"
    /\ UNCHANGED <<arg, fs, dirs, error_log, hist, globals, walk>>

\* AppendDate without the call of add_date_column.
AppendDateSkipped ==
    /\ pc = "append_date"
    /\ main' = [main EXCEPT !.merged_files = Append(@, walk.merged_csv), !.i = @ + 1]
    /\ pc' = "listdir"
    /\ UNCHANGED <<arg, ret, fs, dirs, merge_log, error_log, hist, globals, walk>>

\* Lines 368-369
AppendDate ==
    /\ pc = "append_date"
    /\ fs' = Put(fs, walk.merged_csv, add_date_column(walk.merged_csv, fs[walk.merged_csv]))
    /\ main' = [main EXCEPT !.merged_files = Append(@, walk.merged_csv), !.i = @ + 1]
    /\ pc' = "listdir"
    /\ UNCHANGED <<arg, ret, dirs, merge_log, error_log, hist, globals, walk>>

\* Lines 372-376, once the loop over os.listdir is over
CountMergedLines ==
    /\ pc = "listdir"
    /\ main.i > Len(arg.listdir)
    /\ main' = [main EXCEPT !.global_merged_lines =
                   SumOf([k \in 1..Len(main.merged_files) |->
                             Len(FileReadLines(fs[main.merged_files[k]]))])]
    /\ pc' = "combine"
    /\ UNCHANGED <<arg, ret, fs, dirs, merge_log, error_log, hist, globals, walk>>

\* Lines 379-380
CombineAll ==
    /\ pc = "combine"
    /\ LET r == combine_all_csv_files(main.merged_files, combined_csv_path, arg.broken,
                   [fs |-> fs, dirs |-> dirs, error_log |-> error_log,
                    merge_log |-> merge_log])
       IN /\ main' = [main EXCEPT !.combined_lines = r.ret]
          /\ ret' = r.ret
          /\ fs' = r.fs
          /\ dirs' = r.dirs
          /\ error_log' = r.error_log
          /\ merge_log' = r.merge_log
    /\ pc' = "index"
    /\ UNCHANGED <<arg, hist, globals, walk>>

\* IndexRewrite letting the failure to read the index file leave main.
IndexRewriteAborting ==
    /\ pc = "index"
    /\ index_csv_path \in DOMAIN fs
    /\ LET r == update_column_based_on_index(combined_csv_path, index_csv_path,
                   arg.broken,
                   [fs |-> fs, error_log |-> error_log, merge_log |-> merge_log])
       IN /\ ret' = r.ret
          /\ fs' = r.fs
          /\ error_log' = r.error_log
          /\ merge_log' = r.merge_log
    /\ pc' = IF index_csv_path \in arg.broken THEN "crashed" ELSE "summary"
    /\ UNCHANGED <<arg, dirs, hist, globals, locals>>

\* Lines 383-386: the index file exists
IndexRewrite ==
    /\ pc = "index"
    /\ index_csv_path \in DOMAIN fs
    /\ LET r == update_column_based_on_index(combined_csv_path, index_csv_path,
                   arg.broken,
                   [fs |-> fs, error_log |-> error_log, merge_log |-> merge_log])
       IN /\ ret' = r.ret
          /\ fs' = r.fs
          /\ error_log' = r.error_log
          /\ merge_log' = r.merge_log
    /\ pc' = "summary"
    /\ UNCHANGED <<arg, dirs, hist, globals, locals>>

\* Lines 387-388: no index file
IndexSkipped ==
    /\ pc = "index"
    /\ index_csv_path \notin DOMAIN fs
    /\ pc' = "summary"
    /\ UNCHANGED <<arg, ret, fs, dirs, merge_log, error_log, hist, globals, locals>>

\* The final summary written after the verification, with the list of the
\* files that failed it.
FinalSummaryWithFailedList ==
    /\ pc = "summary"
    /\ merge_log' = AppendLog(merge_log,
                       <<[kind |-> "Final Summary",
                          raw_lines |-> global_raw_lines,
                          filtered_lines |-> global_filtered_lines,
                          merged_lines |-> main.global_merged_lines,
                          combined_lines |-> main.combined_lines,
                          csv_files |-> total_csv_found,
                          input_lines |-> main.global_input_lines,
                          failed_files |-> SelectSeq(main.merged_files,
                              LAMBDA mfile : ~verify_date_column(mfile, fs[mfile]))]>>)
    /\ pc' = "verify"
    /\ UNCHANGED <<arg, ret, fs, dirs, error_log, hist, globals, locals>>

\* Lines 391-399
FinalSummary ==
    /\ pc = "summary"
    /\ merge_log' = AppendLog(merge_log,
                       <<[kind |-> "Final Summary",
                          raw_lines |-> global_raw_lines,
                          filtered_lines |-> global_filtered_lines,
                          merged_lines |-> main.global_merged_lines,
                          combined_lines |-> main.combined_lines,
                          csv_files |-> total_csv_found,
                          input_lines |-> main.global_input_lines]>>)
    /\ pc' = "verify"
    /\ UNCHANGED <<arg, ret, fs, dirs, error_log, hist, globals, locals>>

\* Lines 415-431
VerifyMerged ==
    /\ pc = "verify"
    /\ LET failed_files == SelectSeq(main.merged_files,
                                     LAMBDA mfile : ~verify_date_column(mfile, fs[mfile]))
       IN /\ main' = [main EXCEPT !.failed_files = failed_files]
          /\ merge_log' = AppendLog(merge_log,
                             <<[kind |-> "Verification Summary",
                                checked |-> Len(main.merged_files),
                                failed |-> Len(failed_files)]>>
                             \o [k \in 1..Len(failed_files) |->
                                    [kind |-> "Error: no correct date column",
                                     file |-> failed_files[k],
                                     date |-> extract_date(failed_files[k])]])
    /\ pc' = "done"
    /\ UNCHANGED <<arg, ret, fs, dirs, error_log, hist, globals, walk>>

-----
(* Inputs of a run: up to MaxArchives archives in base_folder, among them  *)
(* a .zip and a .7z of the same stem and an archive without a date in its  *)
(* name, holding up to MaxMembers members in all. The members: a CSV of    *)
(* two good lines; the same name failing to read or to open; a CSV in a    *)
(* folder with a 5-field line, a line with a control character and a last  *)
(* line without terminator and with a lone CR in it; a CSV whose name has  *)
(* exactly 20 characters; a directory named like a CSV. The index file is  *)
(* absent, readable, or there but not readable (arg.broken).               *)

MaxArchives == 2
MaxMembers == 2

ZipName == <<"r", "i", "g", "_", "2", "0", "2", "4", "_", "0", "3", "_", "0", "1", ".", "z", "i", "p">>
SevenZName == <<"r", "i", "g", "_", "2", "0", "2", "4", "_", "0", "3", "_", "0", "1", ".", "7", "z">>
TarName == <<"r", "i", "g", "7", ".", "t", "g", "z">>

MainNames == {ZipName, SevenZName, TarName}

GoodText == RowWith(6, <<"A">>) \o RowWith(7, <<"C">>)

TailText ==
    Join(PlainFields(5), COMMA) \o <<LF>>
       \o RowWith(6, <<SOH>>)
       \o <<"a", COMMA, "a", CR>> \o Join([k \in 1..7 |-> IF k = 6 THEN <<"A">> ELSE <<"a">>], COMMA)

NameA == <<"r", "i", "g", "_", "r", "e", "p", "o", "r", "t", "_", "2", "0", "2", "4", "_", "0", "3", "_", "0", "1", ".", "c", "s", "v">>
NameB == <<"d", "a", "t", "a", "/", "s", "e", "c", "o", "n", "d", "_", "r", "e", "p", "o", "r", "t", "_", "f", "i", "l", "e", ".", "C", "S", "V">>
NameShort == <<"s", "h", "o", "r", "t", "_", "n", "a", "m", "e", "_", "o", "f", "_", "2", "0", ".", "c", "s", "v">>
NameDir == <<"f", "o", "l", "d", "e", "r", "_", "n", "a", "m", "e", "d", "_", "l", "i", "k", "e", "_", "a", ".", "c", "s", "v", "/">>

MGoodA == [name |-> NameA, is_file |-> TRUE, text |-> GoodText, fail |-> "none"]
MBrokenA == [name |-> NameA, is_file |-> TRUE, text |-> GoodText, fail |-> "read"]
MLockedA == [name |-> NameA, is_file |-> TRUE, text |-> GoodText, fail |-> "open"]
MTailB == [name |-> NameB, is_file |-> TRUE, text |-> TailText, fail |-> "none"]
MShort == [name |-> NameShort, is_file |-> TRUE, text |-> GoodText, fail |-> "none"]
MDir == [name |-> NameDir, is_file |-> FALSE, text |-> <<>>, fail |-> "none"]

\* A CSV whose two lines both pass the filter: one of 9 fields, one without
\* terminator and with a lone CR in it.
WideText ==
    RowWith(9, <<"A">>)
       \o <<"a", COMMA, "a", CR>> \o Join([k \in 1..7 |-> IF k = 6 THEN <<"B">> ELSE <<"a">>], COMMA)

MWide == [name |-> NameB, is_file |-> TRUE, text |-> WideText, fail |-> "none"]

\* A CSV of one line of 7 fields without terminator.
OpenEndText == Join([k \in 1..7 |-> IF k = 6 THEN <<"B">> ELSE <<"a">>], COMMA)

MOpenEnd == [name |-> NameB, is_file |-> TRUE, text |-> OpenEndText, fail |-> "none"]

\* The members an archive of this name may hold. Failing to open a member
\* is drawn for 7z only: in a zip it is handled as a failing read is, and
\* tarfile opens a listed member without reading the archive. The CSV with
\* the 9-field line is drawn for zip only, the CSV of one line without
\* terminator for tar only.
MembersFor(filename) ==
    {MGoodA, MBrokenA, MTailB, MShort, MDir}
       \cup (IF IsSevenZ(filename) THEN {MLockedA} ELSE {})
       \cup (IF IsZip(filename) THEN {MWide} ELSE {})
       \cup (IF IsTar(filename) THEN {MOpenEnd} ELSE {})

\* The archives behind a name, with at most budget members: one the library
\* cannot open, and the readable ones.
ArchivesFor(filename, budget) ==
    {[opens |-> FALSE, members |-> <<>>]}
       \cup {[opens |-> TRUE, members |-> m] : m \in LineSeqs(MembersFor(filename), budget)}

\* The sequences of up to n archives with distinct names from names, holding
\* at most budget members in all.
RECURSIVE Layouts(_, _, _)
Layouts(names, n, budget) ==
    {<<>>} \cup
    (IF n = 0 THEN {}
     ELSE UNION { UNION { { <<[filename |-> f, archive |-> a]>> \o rest :
                              rest \in Layouts(names \ {f}, n - 1,
                                               budget - Len(a.members)) } :
                          a \in ArchivesFor(f, budget) } :
                  f \in names })

\* The index file of a run, when there is one: A is mapped to X.
MainIndex == <<"A", ",", "X", LF, "B", ",", "Y", LF>>

InitMain ==
    /\ pc = "start"
    /\ \E layout \in Layouts(MainNames, MaxArchives, MaxMembers),
          unreadable \in SUBSET {index_csv_path} :
          arg = [listdir |-> <<Basename(extracted_folder)>>
                                \o [k \in 1..Len(layout) |-> layout[k].filename],
                 archives |-> [f \in {layout[k].filename : k \in 1..Len(layout)} |->
                                  layout[CHOOSE k \in 1..Len(layout) :
                                            layout[k].filename = f].archive],
                 broken |-> unreadable]
    /\ \E index \in {NoFile, MainIndex} :
          /\ index = NoFile => arg.broken = {}
          /\ fs = [q \in (IF index = NoFile THEN {} ELSE {index_csv_path}) |-> index]
    /\ dirs = {base_folder, results_dir}
    /\ merge_log = <<[kind |-> "Final Summary"]>>
    /\ error_log = <<[kind |-> "Error processing file"]>>
    /\ ret = None
    /\ hist = [written |-> <<>>, runs |-> 1]
    /\ InitGlobals

Next ==
    \/ MainStart
    \/ SkipEntry
    \/ WalkOpen
    \/ WalkZipMember
    \/ WalkTarMember
    \/ WalkSevenZMember
    \/ WalkEnd
    \/ AppendDate
    \/ CountMergedLines
    \/ CombineAll
    \/ IndexRewrite
    \/ IndexSkipped
    \/ FinalSummary
    \/ VerifyMerged

Spec == InitMain /\ [][Next]_vars

-----
(* main called again in the same process, over the same base_folder, up to *)
(* MaxRuns calls in all: the globals and the files are as the call before  *)
(* left them. hist.last holds the globals and the logs at the end of the   *)
(* call before.                                                            *)

MaxRuns == 2

MainAgain ==
    /\ pc = "done"
    /\ hist.runs < MaxRuns
    /\ pc' = "start"
    /\ hist' = [written |-> hist.written, runs |-> hist.runs + 1,
                last |-> [globals |-> globals, merge_log |-> merge_log,
                          error_log |-> error_log]]
    /\ UNCHANGED <<arg, ret, fs, dirs, merge_log, error_log, globals, locals>>

NextAgain == Next \/ MainAgain

SpecAgain == InitMain /\ [][NextAgain]_vars

\* C9: whatever a walker (zip, tar or 7z) has written to the merged CSV of
\* its archive, the file holds exactly the lines passed to writelines, and
\* each of them, as well as each LF-terminated line of the file, has more
\* than 5 comma-separated fields: no line with 5 fields or fewer is written.
C9_MergedLinesHaveMoreThan5Fields ==
    pc \in {"walk", "append_date", "crashed"} =>
       /\ fs[walk.merged_csv] = Flatten(hist.written)
       /\ \A k \in 1..Len(hist.written) : CommaFields(hist.written[k]) > 5
       /\ \A k \in 1..Len(RowsOf(fs[walk.merged_csv])) :
             CommaFields(RowsOf(fs[walk.merged_csv])[k]) > 5

\* The tar walker has met a member with a 5-field line and a line with a
\* control character and kept its third line only; the 7z walker then wrote
\* the two good lines of its member.
C9_Witness ==
    /\ pc = "append_date"
    /\ arg.listdir = <<Basename(extracted_folder), TarName, SevenZName>>
    /\ arg.archives[TarName].members = <<MTailB>>
    /\ walk.file_path = ArchivePath(SevenZName)
    /\ Members = <<MGoodA>>
    /\ hist.written = <<RowWith(6, <<"A">>), RowWith(7, <<"C">>)>>
    /\ fs[walk.merged_csv] = GoodText
    /\ Len(RowsOf(fs[MergedCsvPath(TarName)])) = 2
    /\ global_raw_lines = 5
    /\ global_filtered_lines = 3

-----------------------------------------------------------------------------
(* C11: archives without a date in their name                              *)

\* The positions in arg.listdir of the archives whose path has no date.
NoDateEntries ==
    {k \in 1..Len(arg.listdir) :
        IsArchive(arg.listdir[k]) /\ ~HasDate(ArchivePath(arg.listdir[k]))}

\* The paths of the archives main has opened so far, in order.
OpenedArchives ==
    LET upto == IF pc \in {"walk", "append_date", "crashed"} THEN main.i ELSE main.i - 1
    IN [j \in 1..Len(SelectSeq([k \in 1..upto |-> k],
                               LAMBDA k : IsArchive(arg.listdir[k]))) |->
           ArchivePath(arg.listdir[SelectSeq([k \in 1..upto |-> k],
                                             LAMBDA k : IsArchive(arg.listdir[k]))[j]])]

\* C11: an archive whose path has no date pattern does not halt the run (the
\* run halts only on an archive that does not open). Once main is past it,
\* its merged CSV is in merged_files and every row of that file has
\* 0000-00-00 at index 8; right after the combiner every line of its merged
\* CSV is in the combined CSV; at the end it is not among the files that
\* failed verification. The missing-date list holds exactly the paths of the
\* opened archives without a date, one entry each.
C11_NoDateArchive ==
    pc # "start" =>
       /\ pc = "crashed" => ~arg.archives[arg.listdir[main.i]].opens
       /\ missing_date_archives = SelectSeq(OpenedArchives, LAMBDA p : ~HasDate(p))
       /\ \A k \in NoDateEntries :
             LET merged_csv == MergedCsvPath(arg.listdir[k])
             IN main.i > k =>
                  /\ \E j \in 1..Len(main.merged_files) : main.merged_files[j] = merged_csv
                  /\ \A j \in 1..Len(RowsOf(fs[merged_csv])) :
                        LET columns == Split(RowsOf(fs[merged_csv])[j], COMMA)
                        IN Len(columns) >= 9 /\ columns[9] = SentinelDate
                  /\ pc = "index" =>
                        Range(FileReadLines(fs[merged_csv]))
                           \subseteq Range(FileReadLines(fs[combined_csv_path]))
                  /\ pc = "done" =>
                        \A j \in 1..Len(main.failed_files) :
                           main.failed_files[j] # merged_csv

\* A run over the dateless tar archive holding the two good lines and a
\* dated 7z archive: the run is done, the tar archive is the one entry of
\* the missing-date list, its two rows carry the sentinel and are in the
\* combined CSV, and no file failed verification.
C11_Witness ==
    /\ pc = "done"
    /\ arg.listdir = <<Basename(extracted_folder), TarName, SevenZName>>
    /\ arg.archives[TarName].members = <<MGoodA>>
    /\ arg.archives[SevenZName].members = <<MTailB>>
    /\ missing_date_archives = <<ArchivePath(TarName)>>
    /\ Len(RowsOf(fs[MergedCsvPath(TarName)])) = 2
    /\ Split(RowsOf(fs[MergedCsvPath(TarName)])[1], COMMA)[9] = SentinelDate
    /\ Len(RowsOf(fs[combined_csv_path])) = 4
    /\ main.failed_files = <<>>

-----------------------------------------------------------------------------
(* C12: the end-to-end scenario                                            *)

\* The run is over the one dated ZIP, which opens and holds a single
\* qualifying member that reads and whose lines all pass the filter, and
\* there is a readable index file mapping a field-5 value of the member.
OneZipScenario ==
    /\ arg.listdir = <<Basename(extracted_folder), ZipName>>
    /\ arg.archives[ZipName].opens
    /\ Len(arg.archives[ZipName].members) = 1
    /\ LET member == arg.archives[ZipName].members[1]
           lines == StringIOReadLines(member.text)
       IN /\ member.is_file /\ member.fail = "none"
          /\ Len(Basename(member.name)) > 20
          /\ \A k \in 1..Len(lines) : Retained(lines[k])
          /\ index_csv_path \in DOMAIN fs
          /\ index_csv_path \notin arg.broken
          /\ \E k \in 1..Len(lines) :
                IsKey(fs[index_csv_path], Trimmed(Split(lines[k], COMMA)[6]))

ScenarioLines == StringIOReadLines(arg.archives[ZipName].members[1].text)

ScenarioDate == <<"2", "0", "2", "4", "-", "0", "3", "-", "0", "1">>

\* The combined CSV is the merged CSV with field 5 replaced on the rows whose
\* trimmed field 5 is a key of the index, and on no other row.
ScenarioRewritten ==
    LET merged == RowsOf(fs[MergedCsvPath(ZipName)])
        combined == RowsOf(fs[combined_csv_path])
        index == fs[index_csv_path]
    IN /\ Len(combined) = Len(merged)
       /\ \A k \in 1..Len(merged) :
             LET before == Split(merged[k], COMMA)
             IN Split(combined[k], COMMA) =
                   IF IsKey(index, Trimmed(before[6]))
                   THEN [before EXCEPT ![6] = MappedValue(index, Trimmed(before[6]))]
                   ELSE before
       /\ \E k \in 1..Len(merged) : combined[k] # merged[k]

-----------------------------------------------------------------------------
(* The dashboard loader, try_load_default_csv of streamlit_app.py, on the  *)
(* combined CSV. pd.read_csv is called with its defaults: the first line   *)
(* that is not blank gives the column names, every later line that is not  *)
(* blank is a data row; a data row with fewer fields than there are names  *)
(* is filled with NaN, one with more fields is a parser error, and a file  *)
(* without any line is an error too. NaN is written None. The result is    *)
(* the pair (result_df, error message) of the source, result_df as the     *)
(* sequence of its records.                                                *)

NotFound == "Default CSV file not found"
ErrorReading == "Error reading default CSV"

\* df.iloc[:, i] of one data row, i counted from 0
Cell(cols, i) == IF i + 1 <= Len(cols) /\ cols[i + 1] # <<>> THEN cols[i + 1] ELSE None

try_load_default_csv(files) ==
    IF combined_csv_path \notin DOMAIN files
    THEN [df |-> None, error_message |-> NotFound]
    ELSE LET lines == SelectSeq(RowsOf(files[combined_csv_path]), LAMBDA r : r # <<>>)
         IN IF lines = <<>>
            THEN [df |-> None, error_message |-> ErrorReading]
            ELSE LET columns == Split(lines[1], COMMA)
                     data == [k \in 1..(Len(lines) - 1) |-> Split(lines[k + 1], COMMA)]
                 IN IF \/ \E k \in 1..Len(data) : Len(data[k]) > Len(columns)
                       \/ Len(columns) < 9
                    THEN [df |-> None, error_message |-> ErrorReading]
                    ELSE [df |-> [k \in 1..Len(data) |->
                                    [stationName |-> Cell(data[k], 5),
                                     result |-> Cell(data[k], 6),
                                     slot |-> Cell(data[k], 7),
                                     testDate |-> Cell(data[k], 8)]],
                          error_message |-> None]

-----
(* Inputs of the loader: no combined CSV, or one of up to MaxLoadRows rows *)
(* as the pipeline leaves them, all of 9 or all of 10 fields, with two     *)
(* values each for the station name, the result and the slot.              *)

MaxLoadRows == 2

LoadRow(n, station, result, slot) ==
    Join([k \in 1..n |-> IF k = 6 THEN station
                         ELSE IF k = 7 THEN result
                         ELSE IF k = 8 THEN slot
                         ELSE IF k = 9 THEN ScenarioDate
                         ELSE <<"a">>], COMMA) \o <<LF>>

LoadRows(n) ==
    {LoadRow(n, station, result, slot) :
        station \in {<<"X">>, <<"Y">>}, result \in {<<"P">>, <<"F">>},
        slot \in {<<"1">>, <<"2">>}}

LoadContents ==
    {Flatten(rows) : rows \in LineSeqs(LoadRows(9), MaxLoadRows)
                                 \cup LineSeqs(LoadRows(10), MaxLoadRows)}

InitLoad ==
    /\ pc = "call"
    /\ arg = [path |-> combined_csv_path]
    /\ \E content \in LoadContents \cup {NoFile} :
          fs = [q \in (IF content = NoFile THEN {} ELSE {combined_csv_path}) |-> content]
    /\ dirs = {results_dir}
    /\ merge_log = <<>>
    /\ error_log = <<>>
    /\ ret = None
    /\ hist = None
    /\ InitGlobals

CallLoad ==
    /\ pc = "call"
    /\ ret' = try_load_default_csv(fs)
    /\ pc' = "done"
    /\ UNCHANGED <<arg, fs, dirs, merge_log, error_log, hist, globals, locals>>

NextLoad == CallLoad

SpecLoad == InitLoad /\ [][NextLoad]_vars

\* C13: the loader turns every row of the combined CSV, the first row
\* included, into one record whose station name, result, slot and test date
\* are the row's fields at index 5, 6, 7 and 8; there are as many records
\* as rows.
C13_EveryRowARecord ==
    pc = "done" /\ combined_csv_path \in DOMAIN fs /\ fs[combined_csv_path] # <<>> =>
       LET rows == RowsOf(fs[combined_csv_path])
       IN /\ ret.error_message = None
          /\ Len(ret.df) = Len(rows)
          /\ \A k \in 1..Len(rows) :
                LET fields == Split(rows[k], COMMA)
                IN ret.df[k] = [stationName |-> fields[6], result |-> fields[7],
                                slot |-> fields[8], testDate |-> fields[9]]

-----------------------------------------------------------------------------
(* C14: one merged CSV per archive                                         *)

\* C14: in a run, two distinct archives of base_folder that main has reached
\* never have the same merged CSV path, so that no walk reopens the merged
\* CSV of an earlier archive, and each path occurs once in merged_files.
C14_DistinctMergedPaths ==
    pc \notin {"start", "crashed"} =>
       /\ \A j, k \in 1..Len(main.merged_files) :
             j # k => main.merged_files[j] # main.merged_files[k]
       /\ \A j, k \in 1..Len(arg.listdir) :
             /\ j < k /\ k <= main.i
             /\ IsArchive(arg.listdir[j]) /\ IsArchive(arg.listdir[k])
             => MergedCsvPath(arg.listdir[j]) # MergedCsvPath(arg.listdir[k])

-----------------------------------------------------------------------------
(* C15: a failing member does not abort the walk                           *)

\* The walker is at a member it has to process: the name is not in the
\* Error Set, the base name qualifies, and the entry is one the walker of
\* this format takes for a file.
AtQualifyingMember ==
    /\ pc = "walk"
    /\ walk.k <= Len(Members)
    /\ Members[walk.k].name \notin error_files
    /\ IF IsSevenZ(walk.file_path)
       THEN Qualifies(Basename(Normpath(Members[walk.k].name)))
       ELSE Members[walk.k].is_file /\ Qualifies(Basename(Members[walk.k].name))

\* Opening, extracting, reading or decoding the member the walker is at fails.
AtFailingMember ==
    /\ AtQualifyingMember
    /\ \/ Members[walk.k].fail = "open"
       \/ Members[walk.k].fail = "read" /\ Members[walk.k].is_file

\* C15: in each walker, when handling a qualifying member fails, the step
\* adds the member's name to error_files and one line naming the member and
\* the archive to the error log, and the walk goes on with the next member:
\* the run does not crash and the position in the member list moves by one.
C15_MemberFailureDoesNotAbort ==
    [][AtFailingMember =>
          /\ error_files' = error_files \cup {Members[walk.k].name}
          /\ Len(error_log') = Len(error_log) + 1
          /\ error_log'[Len(error_log')].file = Members[walk.k].name
          /\ error_log'[Len(error_log')].archive = walk.file_path
          /\ SubSeq(error_log', 1, Len(error_log)) = error_log
          /\ pc' = "walk"
          /\ walk'.k = walk.k + 1
          /\ walk'.file_path = walk.file_path]_vars

\* The 7z walker has met a member that does not open and then a member it
\* processed: the first name is in error_files, there is one error line,
\* and the later member was counted and its kept line written.
C15_Witness ==
    /\ pc = "append_date"
    /\ IsSevenZ(walk.file_path)
    /\ Members = <<MLockedA, MTailB>>
    /\ error_files = {NameA}
    /\ Len(error_log) = 1
    /\ error_log[1].kind = "Error on file"
    /\ processed_csv_names = <<NameB>>
    /\ Len(hist.written) = 1

-----------------------------------------------------------------------------
(* C16: a name missing from what archive.read returns                      *)

\* The 7z walker is at a qualifying name that archive.read does not return.
AtAbsentMember ==
    /\ AtQualifyingMember
    /\ IsSevenZ(walk.file_path)
    /\ Members[walk.k].fail # "open"
    /\ ~Members[walk.k].is_file

\* C16: in the 7z walker a qualifying name that is absent from the mapping
\* archive.read returns is handled as a read failure: the step adds the
\* name to error_files and one line for it to the error log.
C16_AbsentNameIsAnError ==
    [][AtAbsentMember =>
          /\ Members[walk.k].name \in error_files'
          /\ Len(error_log') = Len(error_log) + 1
          /\ error_log'[Len(error_log')].file = Members[walk.k].name]_vars

-----------------------------------------------------------------------------
(* C17: exclusion by name                                                  *)

\* C17: a walker at a member whose name is in error_files passes it over:
\* the step changes no counter, no list of names, no file and no log, and
\* only moves to the next member. Within a call of main error_files never
\* loses a name; the start of main empties it.
C17_ExcludedByName ==
    [][/\ (pc = "walk" /\ walk.k <= Len(Members) /\ Members[walk.k].name \in error_files) =>
             /\ UNCHANGED <<total_csv_found, processed_csv_names, global_raw_lines,
                            global_filtered_lines, error_files, missing_date_archives,
                            fs, error_log, merge_log, hist, ret, main>>
             /\ walk' = [walk EXCEPT !.k = @ + 1]
             /\ pc' = "walk"
       /\ pc # "start" => error_files \subseteq error_files'
       /\ pc = "start" => error_files' = {}]_vars

\* Second call of main: the tar walker failed on a member, the 7z walker met
\* a readable member of the same name and passed it over. The name was
\* counted once, by the tar walker, nothing was read or written and the
\* error log of this call has one line.
C17_Witness ==
    /\ hist.runs = 2
    /\ pc = "append_date"
    /\ arg.listdir = <<Basename(extracted_folder), TarName, SevenZName>>
    /\ arg.archives[TarName].members = <<MBrokenA>>
    /\ Members = <<MGoodA>>
    /\ walk.file_path = ArchivePath(SevenZName)
    /\ error_files = {NameA}
    /\ processed_csv_names = <<NameA>>
    /\ total_csv_found = 1
    /\ walk.csv_count = 0
    /\ global_raw_lines = 0
    /\ hist.written = <<>>
    /\ Len(error_log) = 1

-----------------------------------------------------------------------------
(* C18: a failing member leaves no trace in the merged CSV                 *)

-----------------------------------------------------------------------------
(* C19: the rows update_column_based_on_index looks up                     *)

\* The rows of the combined CSV the call started from and the rows it left,
\* as sequences of fields.
RowsBefore ==
    LET lines == FileReadLines(hist.fs[combined_csv_path])
    IN [k \in 1..Len(lines) |-> Split(RStrip(lines[k], {LF}), COMMA)]

RowsAfter ==
    LET rows == RowsOf(fs[combined_csv_path])
    IN [k \in 1..Len(rows) |-> Split(rows[k], COMMA)]

\* The counters of the log line the call wrote last.
Counted == merge_log[Len(merge_log)].matched + merge_log[Len(merge_log)].no_matches

\* C19 as stated: every row with 6 or fewer fields is left unchanged and
\* counted neither as a match nor as a no-match, so the two counters add up
\* to the number of rows with more than 6 fields.
C19_LookupAbove6Fields ==
    (pc = "done" /\ index_csv_path \in DOMAIN hist.fs) =>
       /\ Len(RowsAfter) = Len(RowsBefore)
       /\ \A k \in 1..Len(RowsBefore) :
             Len(RowsBefore[k]) <= 6 => RowsAfter[k] = RowsBefore[k]
       /\ Counted = Cardinality({k \in 1..Len(RowsBefore) : Len(RowsBefore[k]) > 6})

\* C19 as the code has it: the lookup is made on every row with more than 5
\* fields, a row of exactly 6 fields included; every row with 5 or fewer
\* fields is left unchanged and counted neither as a match nor as a
\* no-match, so the two counters add up to the number of rows with more
\* than 5 fields.
C19_LookupAbove5Fields ==
    (pc = "done" /\ index_csv_path \in DOMAIN hist.fs) =>
       LET before == RowsBefore
           after == RowsAfter
           index == hist.fs[index_csv_path]
       IN /\ Len(after) = Len(before)
          /\ \A k \in 1..Len(before) :
                /\ Len(before[k]) <= 5 => after[k] = before[k]
                /\ Len(before[k]) = 6 /\ IsKey(index, Trimmed(before[k][6]))
                   => after[k][6] = MappedValue(index, Trimmed(before[k][6]))
          /\ Counted = Cardinality({k \in 1..Len(before) : Len(before[k]) > 5})

\* A combined CSV of a 5-field row and a 6-field row with the key A in
\* field 5, the index mapping A to X: the 5-field row is as it was, the
\* 6-field row has X, one match and no no-match were counted.
C19_Witness ==
    /\ pc = "done"
    /\ index_csv_path \in DOMAIN hist.fs
    /\ hist.fs[index_csv_path] = <<"A", ",", "X", LF>>
    /\ hist.fs[combined_csv_path] = RowWith(5, <<>>) \o RowWith(6, <<"A">>)
    /\ fs[combined_csv_path] = RowWith(5, <<>>) \o RowWith(6, <<"X">>)
    /\ ret = 1
    /\ Counted = 1

-----------------------------------------------------------------------------
(* C20: the index file cannot be read                                      *)

\* main is about to call update_column_based_on_index on an index file that
\* exists and whose reading raises.
AtUnreadableIndex ==
    /\ pc = "index"
    /\ index_csv_path \in DOMAIN fs
    /\ index_csv_path \in arg.broken

\* update_column_based_on_index has failed to read the index file: its
\* error line is the last of the error log.
IndexReadFailed ==
    /\ pc \notin {"start", "index"}
    /\ index_csv_path \in arg.broken
    /\ error_log # <<>>
    /\ error_log[Len(error_log)].kind = "Error reading index file"

\* The logs of a run that went through REPORT and VERIFY: the final summary
\* followed by the verification summary.
ReportedAndVerified ==
    /\ pc = "done"
    /\ \E j, k \in 1..Len(merge_log) :
          /\ j < k
          /\ merge_log[j].kind = "Final Summary"
          /\ merge_log[k].kind = "Verification Summary"

\* C20: when reading the index file fails, update_column_based_on_index
\* appends one line to the error log, returns 0 and leaves every file, the
\* combined CSV included, and the merge log as they were, and main goes on
\* to the final summary. After the failure main is never halted: it is
\* before the final summary or before the verification with that step
\* ready to run, or at its end with both summaries in the merge log.
C20_IndexReadFailure ==
    /\ [][AtUnreadableIndex =>
             /\ Len(error_log') = Len(error_log) + 1
             /\ SubSeq(error_log', 1, Len(error_log)) = error_log
             /\ error_log'[Len(error_log')].kind = "Error reading index file"
             /\ ret' = 0
             /\ fs' = fs
             /\ merge_log' = merge_log
             /\ pc' = "summary"]_vars
    /\ [](IndexReadFailed =>
             \/ pc = "summary" /\ ENABLED FinalSummary
             \/ pc = "verify" /\ ENABLED VerifyMerged
             \/ ReportedAndVerified)

\* A run over the zip archive with the two good lines and an unreadable
\* index file has ended: the error log has the one line of the index
\* failure, the combined CSV holds the two merged rows with field 5 as it
\* was, and the summaries are in the merge log.
C20_Witness ==
    /\ ReportedAndVerified
    /\ index_csv_path \in arg.broken
    /\ arg.listdir = <<Basename(extracted_folder), ZipName>>
    /\ arg.archives[ZipName].members = <<MGoodA>>
    /\ Len(error_log) = 1
    /\ error_log[1].kind = "Error reading index file"
    /\ fs[combined_csv_path] = fs[MergedCsvPath(ZipName)]
    /\ Split(RowsOf(fs[combined_csv_path])[1], COMMA)[6] = <<"A">>
    /\ main.failed_files = <<>>

-----------------------------------------------------------------------------
(* update_column_based_on_index when reading or writing the combined CSV   *)
(* raises. The file is rewritten in place: open(combined_csv_path, 'w')    *)
(* truncates it and writelines sends the rows, so a write that raises      *)
(* leaves the file with the characters that reached it before.             *)

\* Lines 311-319 when the write raises: open(..., 'w') has truncated the
\* file and kept characters of the updated rows have reached it; the except
\* block logs the error and returns 0. Called once the index file is read.
update_column_write_raises(combined_path, index_path, st, kept) ==
    LET lookup == BuildLookup(FileReadLines(st.fs[index_path]), 1, << >>)
        lines == FileReadLines(st.fs[combined_path])
        content == FileWriteLines([k \in 1..Len(lines) |-> UpdateRow(lines[k], lookup).row])
    IN [ret |-> 0,
        fs |-> Put(st.fs, combined_path, SubSeq(content, 1, kept)),
        error_log |-> AppendLog(st.error_log,
                         <<[kind |-> "Error updating combined CSV",
                            file |-> combined_path]>>),
        merge_log |-> st.merge_log]

\* The content the call writes when nothing raises.
RewrittenContent ==
    update_column_based_on_index(arg.combined_csv_path, arg.index_csv_path, {},
        [fs |-> hist.fs, error_log |-> <<>>, merge_log |-> <<>>]).fs[arg.combined_csv_path]

\* The call with the combined CSV failing to be read (line 295).
CallUpdateColumnReadRaises ==
    /\ pc = "call"
    /\ LET r == update_column_based_on_index(arg.combined_csv_path, arg.index_csv_path,
                   {arg.combined_csv_path},
                   [fs |-> fs, error_log |-> error_log, merge_log |-> merge_log])
       IN /\ ret' = r.ret
          /\ fs' = r.fs
          /\ error_log' = r.error_log
          /\ merge_log' = r.merge_log
    /\ pc' = "done"
    /\ UNCHANGED <<arg, dirs, hist, globals, locals>>

\* The call with the write raising after any number of characters.
CallUpdateColumnWriteRaises ==
    /\ pc = "call"
    /\ arg.index_csv_path \in DOMAIN fs
    /\ \E kept \in 0..Len(RewrittenContent) :
          LET r == update_column_write_raises(arg.combined_csv_path, arg.index_csv_path,
                      [fs |-> fs, error_log |-> error_log, merge_log |-> merge_log], kept)
          IN /\ ret' = r.ret
             /\ fs' = r.fs
             /\ error_log' = r.error_log
             /\ merge_log' = r.merge_log
    /\ pc' = "done"
    /\ UNCHANGED <<arg, dirs, hist, globals, locals>>

NextIndexFault ==
    \/ CallUpdateColumn
    \/ CallUpdateColumnReadRaises
    \/ CallUpdateColumnWriteRaises

SpecIndexFault == InitIndex /\ [][NextIndexFault]_vars

\* The call ended in the except block of lines 314-319.
UpdateFailed ==
    /\ pc = "done"
    /\ error_log # <<>>
    /\ error_log[Len(error_log)].kind = "Error updating combined CSV"

\* C21: when reading or writing the combined CSV fails in
\* update_column_based_on_index, the call logs the error and returns 0, and
\* the combined CSV holds either its complete original content or the
\* complete rewritten content.
C21_AllOrNothingRewrite ==
    UpdateFailed =>
       /\ ret = 0
       /\ merge_log = <<>>
       /\ \/ fs[combined_csv_path] = hist.fs[combined_csv_path]
          \/ fs[combined_csv_path] = RewrittenContent

-----------------------------------------------------------------------------
(* Read errors in combine_all_csv_files                                    *)

\* The positions of csv_files whose file is read, and those whose reading
\* raises, in list order.
ReadPositions == SelectSeq(Indices(arg.csv_files), LAMBDA k : Readable(arg.csv_files[k]))

FailedPositions == SelectSeq(Indices(arg.csv_files), LAMBDA k : ~Readable(arg.csv_files[k]))

\* C22: in combine_all_csv_files an input that cannot be read adds one
\* message to the error log and no line to the output or to the returned
\* count; the output holds the lines of the inputs that can be read, those
\* before and those after it, in list order, and the count is their number.
C22_ReadErrorSkipsOneFile ==
    (pc = "done" /\ arg.csv_files # <<>>) =>
        LET lines == [j \in 1..Len(ReadPositions) |->
                         FileReadLines(hist.fs[arg.csv_files[ReadPositions[j]]])]
        IN /\ fs[arg.output_path] = Flatten([j \in 1..Len(lines) |-> Flatten(lines[j])])
           /\ ret = SumOf([j \in 1..Len(lines) |-> Len(lines[j])])
           /\ error_log = [j \in 1..Len(FailedPositions) |->
                              [kind |-> "Error combining file",
                               file |-> arg.csv_files[FailedPositions[j]]]]
           /\ merge_log[Len(merge_log)].rows = ret

\* Three inputs: the second is there and cannot be read, the first and the
\* third hold two lines each and are written one after the other.
C22_Witness ==
    /\ pc = "done"
    /\ Len(arg.csv_files) = 3
    /\ FailedPositions = <<2>>
    /\ arg.csv_files[2] \in arg.broken
    /\ arg.csv_files[2] \in DOMAIN hist.fs
    /\ hist.fs[arg.csv_files[2]] # <<>>
    /\ Len(FileReadLines(hist.fs[arg.csv_files[1]])) = 2
    /\ Len(FileReadLines(hist.fs[arg.csv_files[3]])) = 2
    /\ ret = 4
    /\ Len(error_log) = 1

-----------------------------------------------------------------------------
(* The order of the steps of main                                          *)

\* The position of a step in the run: the loop over os.listdir is one
\* position, each later step has its own.
Rank(p) ==
    CASE p = "start" -> 0
      [] p \in {"listdir", "walk", "append_date"} -> 1
      [] p = "combine" -> 2
      [] p = "index" -> 3
      [] p = "summary" -> 4
      [] p = "verify" -> 5
      [] p = "done" -> 6
      [] p = "crashed" -> 7

\* The merged CSV paths of the archives among the first n names of os.listdir.
MergedPathsOf(n) ==
    LET found == SelectSeq(SubSeq(arg.listdir, 1, n), LAMBDA f : IsArchive(f))
    IN [k \in 1..Len(found) |-> MergedCsvPath(found[k])]

\* The messages of the run log of the given kind.
LogEntries(kind) == SelectSeq(merge_log, LAMBDA e : e.kind = kind)

\* C23: in a run of main the walk of an archive is followed by the date
\* append of that archive, and the walk of an archive starts only when
\* every archive before it is walked and date-appended; the combine step
\* starts only when every archive is walked and date-appended and runs
\* once; the index rewrite runs at most once and only right after the
\* combine step; no step from the combine step on is entered again.
C23_StrictSequencing ==
    /\ [][/\ Rank(pc') >= Rank(pc)
          /\ pc \in {"combine", "index", "summary", "verify", "done", "crashed"}
                => Rank(pc') > Rank(pc)
          /\ (pc = "walk" /\ pc' # "walk")
                => /\ pc' \in {"append_date", "crashed"}
                   /\ walk' = walk
                   /\ main'.i = main.i
          /\ pc = "append_date"
                => /\ pc' = "listdir"
                   /\ fs' = Put(fs, walk.merged_csv,
                                add_date_column(walk.merged_csv, fs[walk.merged_csv]))
                   /\ main'.merged_files = Append(main.merged_files, walk.merged_csv)
                   /\ main'.i = main.i + 1
          /\ (pc = "listdir" /\ pc' \in {"walk", "crashed"})
                => /\ walk'.merged_csv = MergedCsvPath(arg.listdir[main.i])
                   /\ main.merged_files = MergedPathsOf(main.i - 1)
          /\ pc' = "combine"
                => /\ pc = "listdir"
                   /\ main.i = Len(arg.listdir) + 1
                   /\ main.merged_files = MergedPathsOf(Len(arg.listdir))
          /\ pc = "combine" => pc' = "index"
          /\ pc' = "index" => pc = "combine"
          /\ pc = "index" => pc' = "summary"]_vars
    /\ [](/\ pc \in {"listdir", "combine"} =>
               \A k \in 1..Len(main.merged_files) :
                  \A j \in 1..Len(RowsOf(fs[main.merged_files[k]])) :
                     Len(Split(RowsOf(fs[main.merged_files[k]])[j], COMMA)) >= 9
          /\ pc \in {"index", "summary", "verify", "done"} =>
               /\ Len(LogEntries("Combined CSV created")) =
                     (IF main.merged_files = <<>> THEN 0 ELSE 1)
               /\ Len(LogEntries("Column updates complete")) <= 1
          /\ pc \in {"start", "listdir", "walk", "append_date", "combine"} =>
               /\ LogEntries("Combined CSV created") = <<>>
               /\ LogEntries("Column updates complete") = <<>>
          /\ pc = "index" => LogEntries("Column updates complete") = <<>>)

\* A finished run over two archives that hold lines, with the index
\* rewrite done.
C23_Witness ==
    /\ pc = "done"
    /\ Len(main.merged_files) = 2
    /\ main.merged_files[1] # main.merged_files[2]
    /\ \A k \in 1..2 : fs[main.merged_files[k]] # <<>>
    /\ Len(LogEntries("Merged CSV created")) = 2
    /\ Len(LogEntries("Combined CSV created")) = 1
    /\ Len(LogEntries("Column updates complete")) = 1

-----------------------------------------------------------------------------
(* The final summary and the verification                                  *)

\* The positions in the run log of the messages of the given kind.
LogPositions(kind) == SelectSeq(Indices(merge_log), LAMBDA k : merge_log[k].kind = kind)

\* C24 as stated: once the run has started, a final summary in the run log
\* comes after the verification summary and carries the list of the files
\* that failed the verification.
C24_VerifyBeforeReport ==
    pc # "start" =>
       \A k \in 1..Len(merge_log) :
          merge_log[k].kind = "Final Summary" =>
             /\ \E j \in 1..(k - 1) : merge_log[j].kind = "Verification Summary"
             /\ "failed_files" \in DOMAIN merge_log[k]

\* C24 as the code has it: the final summary (raw, filtered, merged,
\* combined and input line totals, file count) is written first, without a
\* list of failed files; the verification runs after it on every merged
\* CSV and appends the verification summary with the number of files
\* checked and failed, and one message for each file that failed.
C24_ReportBeforeVerify ==
    /\ [][pc = "summary" =>
             /\ pc' = "verify"
             /\ merge_log' = Append(merge_log,
                                [kind |-> "Final Summary",
                                 raw_lines |-> global_raw_lines,
                                 filtered_lines |-> global_filtered_lines,
                                 merged_lines |-> main.global_merged_lines,
                                 combined_lines |-> main.combined_lines,
                                 csv_files |-> total_csv_found,
                                 input_lines |-> main.global_input_lines])
             /\ \A k \in 1..Len(merge_log) : merge_log[k].kind # "Verification Summary"
             /\ main' = main]_vars
    /\ [][pc = "verify" =>
             LET failed == SelectSeq(main.merged_files,
                                     LAMBDA mfile : ~verify_date_column(mfile, fs[mfile]))
             IN /\ pc' = "done"
                /\ main'.failed_files = failed
                /\ Len(merge_log') = Len(merge_log) + 1 + Len(failed)
                /\ SubSeq(merge_log', 1, Len(merge_log)) = merge_log
                /\ merge_log[Len(merge_log)].kind = "Final Summary"
                /\ merge_log'[Len(merge_log) + 1] =
                      [kind |-> "Verification Summary",
                       checked |-> Len(main.merged_files), failed |-> Len(failed)]
                /\ \A k \in 1..Len(failed) :
                      /\ merge_log'[Len(merge_log) + 1 + k].kind = "Error: no correct date column"
                      /\ merge_log'[Len(merge_log) + 1 + k].file = failed[k]]_vars
    /\ [](pc = "done" =>
             /\ Len(LogPositions("Final Summary")) = 1
             /\ Len(LogPositions("Verification Summary")) = 1
             /\ LogPositions("Final Summary")[1] + 1 = LogPositions("Verification Summary")[1])

\* A finished run over two archives with lines in their merged CSVs: the
\* log ends with the final summary followed by the verification summary.
C24_Witness ==
    /\ pc = "done"
    /\ Len(main.merged_files) = 2
    /\ \A k \in 1..2 : fs[main.merged_files[k]] # <<>>
    /\ merge_log[Len(merge_log) - 1].kind = "Final Summary"
    /\ merge_log[Len(merge_log) - 1].merged_lines > 2
    /\ merge_log[Len(merge_log)] =
          [kind |-> "Verification Summary", checked |-> 2, failed |-> 0]

-----------------------------------------------------------------------------
(* A run after earlier runs                                                *)

-----------------------------------------------------------------------------
(* The date of an archive and of its merged CSV: what main and the walker  *)
(* do with the date for one name of os.listdir (lines 365-368, 77-80 and   *)
(* 47-59), the walker having written the lines of text to the merged CSV.  *)

ArchiveExtensions == { <<".", "z", "i", "p">>, <<".", "t", "a", "r", ".", "g", "z">>, <<".", "7", "z">> }

\* Names with dots inside: a date after a dot, a date cut by the extension,
\* a name that is an extension only.
DottedNames ==
    { <<"r", "i", "g", ".", "2", "0", "2", "4", "-", "0", "3", "-", "0", "1", ".", "t", "a", "r", ".", "g", "z">>,
      <<"a", ".", "b", "_", "1", "9", "9", "9", "_", "1", "2", "_", "3", "1", ".", "7", "z">>,
      <<"r", "2", "0", "2", "4", "-", "0", "3", "-", "0", ".", "7", "z">>,
      <<".", "z", "i", "p">> }

\* Archive names: the paths of the date extractor with an archive
\* extension, and the names above.
DatedNames ==
    {stem \o e : stem \in Paths, e \in ArchiveExtensions} \cup ArchiveNames \cup DottedNames

InitDerive ==
    /\ pc = "call"
    /\ \E filename \in DatedNames : arg = [filename |-> filename, text |-> GoodText]
    /\ ret = None
    /\ fs = << >>
    /\ dirs = {}
    /\ merge_log = <<>>
    /\ error_log = <<>>
    /\ hist = None
    /\ InitGlobals

CallDeriveAndDate ==
    /\ pc = "call"
    /\ IsArchive(arg.filename)
    /\ LET file_path == ArchivePath(arg.filename)
           merged_csv == MergedCsvPath(arg.filename)
       IN /\ missing_date_archives' =
                IF extract_date(file_path) = SentinelDate
                THEN Append(missing_date_archives, file_path)
                ELSE missing_date_archives
          /\ fs' = Put(fs, merged_csv, add_date_column(merged_csv, arg.text))
          /\ ret' = [file_path |-> file_path, merged_csv |-> merged_csv]
    /\ pc' = "done"
    /\ UNCHANGED <<arg, dirs, merge_log, error_log, hist, main, walk, total_csv_found,
                   processed_csv_names, error_files, global_raw_lines,
                   global_filtered_lines>>

NextDerive == CallDeriveAndDate

SpecDerive == InitDerive /\ [][NextDerive]_vars

\* C26: the merged CSV path main derives from an archive name gives
\* extract_date the date the archive path gives it; every row of the merged
\* CSV carries that date at index 8; and the archive is in the missing-date
\* list exactly when the rows carry the sentinel.
C26_DateAgreement ==
    pc = "done" =>
       LET rows == RowsOf(fs[ret.merged_csv])
           missing == \E k \in 1..Len(missing_date_archives) :
                         missing_date_archives[k] = ret.file_path
       IN /\ extract_date(ret.merged_csv) = extract_date(ret.file_path)
          /\ rows # <<>>
          /\ \A j \in 1..Len(rows) :
                Split(rows[j], COMMA)[9] = extract_date(ret.file_path)
          /\ missing <=> \A j \in 1..Len(rows) : Split(rows[j], COMMA)[9] = SentinelDate

\* An archive whose name has a dot before its date: the date is kept in the
\* merged CSV path and written to the rows.
C26_Witness ==
    /\ pc = "done"
    /\ arg.filename = <<"r", "i", "g", ".", "2", "0", "2", "4", "-", "0", "3", "-", "0", "1", ".", "t", "a", "r", ".", "g", "z">>
    /\ ret.merged_csv = PathJoin(extracted_folder, <<"r", "i", "g", ".", "2", "0", "2", "4", "-", "0", "3", "-", "0", "1", ".", "t", "a", "r", ".", "c", "s", "v">>)
    /\ missing_date_archives = <<>>
    /\ Split(RowsOf(fs[ret.merged_csv])[1], COMMA)[9] = <<"2", "0", "2", "4", "-", "0", "3", "-", "0", "1">>

-----------------------------------------------------------------------------
(* Line counts of the merged CSVs                                          *)

\* C27: after the walk and the date append of an archive, its merged CSV
\* holds as many lines as the walker returned; and the merged-lines total
\* of the final summary is the sum of the counts the walkers returned.
C27_LineCountAgreement ==
    /\ (pc = "listdir" /\ main.merged_files # <<>>) =>
          Len(FileReadLines(fs[walk.merged_csv])) = walk.total_lines
    /\ pc \in {"verify", "done"} =>
          \A k \in 1..Len(merge_log) :
             merge_log[k].kind = "Final Summary" =>
                merge_log[k].merged_lines = merge_log[k].input_lines

-----------------------------------------------------------------------------
(* The members counted as processed                                        *)

\* C28: a walker step that adds a member name to the Error Set does not
\* append the name to processed_csv_names and counts the member neither in
\* csv_count nor in total_csv_found.
C28_FailedMemberNotCounted ==
    [][(pc = "walk" /\ error_files' # error_files) =>
          /\ processed_csv_names' = processed_csv_names
          /\ total_csv_found' = total_csv_found
          /\ walk'.csv_count = walk.csv_count]_vars

-----------------------------------------------------------------------------
(* The three walkers called on the same members. A walker is the loop of   *)
(* its loop body over the members, from csv_count = 0, total_lines = 0 and *)
(* an empty merged CSV; an exception that no except block catches ends it. *)

\* The loop of the walker of the given kind from member k on.
RECURSIVE WalkLoop(_, _, _, _, _)
WalkLoop(kind, members, k, file_path, st) ==
    IF k > Len(members) \/ st.raised THEN st
    ELSE WalkLoop(kind, members, k + 1, file_path,
            CASE kind = "zip" -> zip_member(st, members[k], file_path)
              [] kind = "tar" -> tar_member(st, members[k], file_path)
              [] kind = "7z" -> sevenz_member(st, members[k], file_path))

\* The state a walker starts in, the Error Set given.
WalkerStart(errors) ==
    [error_files |-> errors, error_log |-> <<>>,
     total_csv_found |-> 0, processed_csv_names |-> <<>>,
     global_raw_lines |-> 0, global_filtered_lines |-> 0,
     csv_count |-> 0, total_lines |-> 0,
     merged |-> <<>>, written |-> <<>>, raised |-> FALSE]

merge_csv_from_zip(zip_path, members, errors) ==
    WalkLoop("zip", members, 1, zip_path, WalkerStart(errors))

merge_csv_from_tar(tar_path, members, errors) ==
    WalkLoop("tar", members, 1, tar_path, WalkerStart(errors))

merge_csv_from_7z(sevenz_path, members, errors) ==
    WalkLoop("7z", members, 1, sevenz_path, WalkerStart(errors))

\* The members of the comparison: those of the runs, in any format.
AllMembers == {MGoodA, MBrokenA, MLockedA, MTailB, MShort, MDir, MWide, MOpenEnd}

InitWalkers ==
    /\ pc = "call"
    /\ \E members \in LineSeqs(AllMembers, MaxMembers), errors \in {{}, {NameB}} :
          arg = [members |-> members, file_path |-> ArchivePath(TarName),
                 error_files |-> errors]
    /\ ret = None
    /\ fs = << >>
    /\ dirs = {}
    /\ merge_log = <<>>
    /\ error_log = <<>>
    /\ hist = None
    /\ InitGlobals

\* The three walkers, each called on the members of arg.
CallWalkers ==
    /\ pc = "call"
    /\ ret' = [zip |-> merge_csv_from_zip(arg.file_path, arg.members, arg.error_files),
               tar |-> merge_csv_from_tar(arg.file_path, arg.members, arg.error_files),
               sevenz |-> merge_csv_from_7z(arg.file_path, arg.members, arg.error_files)]
    /\ pc' = "done"
    /\ UNCHANGED <<arg, fs, dirs, merge_log, error_log, hist, globals, locals>>

NextWalkers == CallWalkers

SpecWalkers == InitWalkers /\ [][NextWalkers]_vars

\* The part of the result of a walker that is compared.
Outcome(r) ==
    [merged |-> r.merged, total_lines |-> r.total_lines, csv_count |-> r.csv_count,
     processed_csv_names |-> r.processed_csv_names, error_files |-> r.error_files,
     error_log |-> r.error_log]

\* C29: called on the same members with the same contents and the same
\* failures, the zip, tar and 7z walkers leave the same merged CSV, return
\* the same line count and make the same processed count, processed-names
\* list, Error Set and error log. The tar walker is compared for members
\* that it can open: tarfile opens a listed member without reading.
C29_FormatIndependence ==
    pc = "done" =>
       /\ Outcome(ret.zip) = Outcome(ret.sevenz)
       /\ (\A k \in 1..Len(arg.members) : arg.members[k].fail # "open")
             => Outcome(ret.zip) = Outcome(ret.tar)

-----------------------------------------------------------------------------
(* What the index rewrite leaves alone                                     *)

\* C30: update_column_based_on_index leaves the combined CSV with the same
\* number of rows in the same order, every row with the same number of
\* fields and with every field other than the one at index 5 as it was;
\* so the fields at index 6, 7 and 8 of a row are the same before and after.
C30_RewriteFrame ==
    pc = "done" =>
       LET before == RowsBefore
           after == RowsAfter
       IN /\ Len(after) = Len(before)
          /\ \A k \in 1..Len(before) :
                /\ Len(after[k]) = Len(before[k])
                /\ \A j \in 1..Len(before[k]) : j # 6 => after[k][j] = before[k][j]
                /\ Len(before[k]) >= 9 =>
                      SubSeq(after[k], 7, 9) = SubSeq(before[k], 7, 9)

\* Two rows whose field at index 5 is rewritten: one of 7 fields with the
\* key B in whitespace, one of 9 fields with the key A, the last without
\* its line end in the file.
C30_Witness ==
    /\ pc = "done"
    /\ ret = 2
    /\ hist.fs[combined_csv_path] =
          Flatten(Unterminate(<<RowWith(7, <<SP, "B">>), RowWith(9, <<SP, "A", TAB>>)>>))
    /\ RowsAfter[1][6] = <<"Y">>
    /\ RowsAfter[2][6] = <<"X">>
    /\ Len(RowsAfter[2]) = 9

====
